---- MODULE Spec2Model ----
(***************************************************************************)
(* Citation filtering (src/citation_filter.py) and text preparation        *)
(* (src/tts_preparator.py) of LegalTTSFilter.                              *)
(*                                                                         *)
(* A text is a sequence of one-character strings.  Offsets are Python's:   *)
(* 0-based, a span <<s, e>> denotes the characters at offsets s .. e-1.    *)
(* The citation oracle (eyecite's get_citations) is the environment: its   *)
(* answer is drawn in the initial state, and the point at which a call     *)
(* faults, if it does, is chosen by the call's action.                     *)
(***************************************************************************)
EXTENDS Integers, Sequences, FiniteSets, TLC

VARIABLES
    text,         \* the text the caller passes
    oracle,       \* what get_citations(text) answers: a sequence of records
    op,           \* the function that was called, "none" before the call
    strategy,     \* filter_citations' strategy argument
    placeholder,  \* filter_citations' placeholder argument
    fault,        \* where an exception was thrown during the call
    outcome,      \* "pending", "returned" or "raised"
    result,       \* the text the call returned
    citations,    \* the list identify_citations returned
    working,      \* filter_citations' working string before the cleanup
    converted,    \* identify_citations' list when the exception came
    oracleCalls,  \* how many times get_citations was called
    sources,      \* the word lists _load_dictionary finds in its environment
    word_set,     \* the lexicon: what _load_dictionary returned
    remove_digits,      \* apply_dictionary_filter's remove_digits argument
    abbreviation_dict,  \* expand_abbreviations' dictionary, in its key order
    opened,       \* the system locations the last _load_dictionary opened
    loads,        \* how many times _load_dictionary has been called
    options       \* prepare_for_tts' four other flags

\* the variables of the calls of tts_preparator.py
prepVars ==
    <<sources, word_set, remove_digits, abbreviation_dict, opened, loads,
      options>>

vars == <<text, oracle, op, strategy, placeholder, fault, outcome, result,
          citations, working, converted, oracleCalls, prepVars>>

------------------------------------------------------------------------------
(* Bounds of the model.                                                    *)

MaxSegs == 3

MaxCits == 2

MaxCleanLen == 3

------------------------------------------------------------------------------
(* Characters and the classes the regular expressions use.                 *)

UpperSeq ==
    <<"A","B","C","D","E","F","G","H","I","J","K","L","M",
      "N","O","P","Q","R","S","T","U","V","W","X","Y","Z">>

LowerSeq ==
    <<"a","b","c","d","e","f","g","h","i","j","k","l","m",
      "n","o","p","q","r","s","t","u","v","w","x","y","z">>

Upper == {UpperSeq[k] : k \in 1..26}

Lower == {LowerSeq[k] : k \in 1..26}

\* str.lower() of one character
ToLower(c) ==
    IF c \in Upper THEN LowerSeq[CHOOSE k \in 1..26 : UpperSeq[k] = c] ELSE c

\* \s
IsSpace(c) == c \in {" ", "\t", "\n", "\r"}

\* [A-Z] under re.IGNORECASE: the flag makes the class match both cases
CapitalClass(c) == c \in Upper \cup Lower

\* [a-zA-Z\']
WordClass(c) == c \in Upper \cup Lower \cup {"'"}

Min(a, b) == IF a <= b THEN a ELSE b

\* s[:n] and s[n:] for n >= 0; Python clamps an offset past the end
Take(s, n) == SubSeq(s, 1, Min(n, Len(s)))

Drop(s, n) == SubSeq(s, Min(n, Len(s)) + 1, Len(s))

\* s[a:b]
Slice(s, a, b) == SubSeq(s, Min(a, Len(s)) + 1, Min(b, Len(s)))

\* the character at offset i
At(s, i) == s[i + 1]

------------------------------------------------------------------------------
(* The case-name patterns of identify_citations.  Each sub-pattern is the  *)
(* set of offsets at which a match of it that starts at offset i can end.  *)

\* \s+
SpaceEnds(p, i) ==
    {j \in (i + 1)..Len(p) : \A k \in i..(j - 1) : IsSpace(At(p, k))}

\* \s+ from any offset of the set from
SpaceAfter(p, from) == UNION {SpaceEnds(p, j) : j \in from}

\* [A-Z][a-zA-Z\']*
WordEnds(p, i) ==
    IF i < Len(p) /\ CapitalClass(At(p, i))
    THEN {j \in (i + 1)..Len(p) : \A k \in (i + 1)..(j - 1) : WordClass(At(p, k))}
    ELSE {}

\* [A-Z][a-zA-Z\']*(?:\s+[A-Z][a-zA-Z\']*)* : a word, then any number of
\* further words, each after \s+
RECURSIVE NameEnds(_, _)
RECURSIVE MoreWords(_, _)
MoreWords(p, w) == w \cup UNION {NameEnds(p, k) : k \in SpaceAfter(p, w)}

NameEnds(p, i) == MoreWords(p, WordEnds(p, i))

NameAfter(p, from) == UNION {NameEnds(p, j) : j \in from}

\* a literal, compared case-insensitively (re.IGNORECASE)
LitEnds(p, i, lit) ==
    IF /\ i + Len(lit) <= Len(p)
       /\ \A k \in 1..Len(lit) : ToLower(At(p, i + k - 1)) = lit[k]
    THEN {i + Len(lit)}
    ELSE {}

LitAfter(p, from, lit) == UNION {LitEnds(p, j, lit) : j \in from}

\* (?:v\.?|vs\.?|versus)
VForms == {<<"v">>, <<"v", ".">>, <<"v", "s">>, <<"v", "s", ".">>,
           <<"v", "e", "r", "s", "u", "s">>}

VAfter(p, from) == UNION {LitAfter(p, from, f) : f \in VForms}

\* Name \s+ (v|vs|versus) \s+ Name : the group of patterns 1 and 4
PartiesEnds(p, i) ==
    NameAfter(p, SpaceAfter(p, VAfter(p, SpaceAfter(p, NameEnds(p, i)))))

\* the patterns without their final ,?\s*$
TailAnywhere(p, e) == TRUE

\* ,?\s*$  from offset e to the end of the prefix
TailMatches(p, e) ==
    \E j \in {e} \cup (IF e < Len(p) /\ At(p, e) = "," THEN {e + 1} ELSE {}) :
        \A k \in j..(Len(p) - 1) : IsSpace(At(p, k))

\* the two literal words that open patterns 2 ("In re") and 3 ("Ex parte")
Opening(k) ==
    IF k = 2 THEN << <<"i", "n">>, <<"r", "e">> >>
    ELSE << <<"e", "x">>, <<"p", "a", "r", "t", "e">> >>

\* literal \s+ literal \s+ Name : the groups of patterns 2 and 3
PrefixedEnds(p, i, words) ==
    NameAfter(p, SpaceAfter(p, LitAfter(p,
        SpaceAfter(p, LitEnds(p, i, words[1])), words[2])))

\* the lead-in alternatives of pattern 4, in the order the pattern lists them
LeadIns ==
    << <<<<"i","n">>>>, <<<<"o","f">>>>, <<<<"b","y">>>>,
       <<<<"f","r","o","m">>>>, <<<<"s","e","e">>>>,
       <<<<"c","i","t","i","n","g">>>>,
       <<<<"i","n">>, <<"t","h","e">>, <<"c","a","s","e">>, <<"o","f">>>>,
       <<<<"t","h","e">>, <<"c","o","u","r","t">>, <<"i","n">>>> >>

\* the words of one lead-in from word n on, separated by \s+
RECURSIVE WordsEnds(_, _, _, _)
WordsEnds(p, from, words, n) ==
    IF n > Len(words) THEN from
    ELSE WordsEnds(p, LitAfter(p, IF n = 1 THEN from ELSE SpaceAfter(p, from),
                               words[n]), words, n + 1)

\* Python's None: no span, no case name
None == <<>>

\* the leftmost of a set of matches <<start, alternative, group start, group
\* end>>, and there the first alternative: its group's span
FirstMatch(ms) ==
    IF ms = {} THEN None
    ELSE LET m == CHOOSE x \in ms : \A y \in ms :
                    \/ x[1] < y[1]
                    \/ x[1] = y[1] /\ x[2] <= y[2]
         IN  <<m[3], m[4]>>

\* the ends, at which the tail matches, of the group of pattern k (1: Name v.
\* Name, 2: In re Name, 3: Ex parte Name) started at offset i.  There is at
\* most one: the tail holds no word character.
GroupAt(p, i, k) ==
    {e \in (IF k = 1 THEN PartiesEnds(p, i)
            ELSE PrefixedEnds(p, i, Opening(k))) : TailMatches(p, e)}

\* What re.search(pattern, prefix) captures as group 1 for patterns 1 to 3,
\* whose group starts where the match starts
AnchoredGroup(p, k) ==
    FirstMatch(UNION {{<<i, 1, i, e>> : e \in GroupAt(p, i, k)} :
                        i \in 0..Len(p)})

\* the matches of alternative n of pattern 4 that start at offset i:
\* lead-in \s+ (group) tail
LeadInAt(p, i, n) ==
    UNION {{<<i, n, g, e>> : e \in GroupAt(p, g, 1)} :
            g \in SpaceAfter(p, WordsEnds(p, {i}, LeadIns[n], 1))}

\* What re.search captures as group 1 for pattern 4
Pattern4Group(p) ==
    FirstMatch(UNION {LeadInAt(p, x[1], x[2]) :
                        x \in (0..Len(p)) \X (1..Len(LeadIns))})

NumPatterns == 4

\* the chain with its last pattern tried first
CaseNameLastFirst(p, k) ==
    IF Pattern4Group(p) # None THEN Pattern4Group(p)
    ELSE IF AnchoredGroup(p, 1) # None THEN AnchoredGroup(p, 1)
    ELSE IF AnchoredGroup(p, 2) # None THEN AnchoredGroup(p, 2)
    ELSE AnchoredGroup(p, 3)

\* for pattern in case_patterns: the first pattern that matches wins
RECURSIVE CaseNameFrom(_, _)
RECURSIVE OrNextPattern(_, _, _)
OrNextPattern(p, k, group) ==
    IF group # None THEN group ELSE CaseNameFrom(p, k + 1)

CaseNameFrom(p, k) ==
    IF k > NumPatterns THEN None
    ELSE OrNextPattern(p, k, IF k < NumPatterns THEN AnchoredGroup(p, k)
                             ELSE Pattern4Group(p))

CaseNameSpan(p) == CaseNameFrom(p, 1)

------------------------------------------------------------------------------
(* identify_citations.                                                     *)

\* the classes of eyecite.models the code tests for, and any other class
Kinds == {"FullCaseCitation", "ShortCaseCitation", "SupraCitation",
          "IdCitation", "Other"}

\* the isinstance chain
CitationType(kind) ==
    CASE kind = "FullCaseCitation" -> "full"
      [] kind = "ShortCaseCitation" -> "short"
      [] kind = "SupraCitation" -> "supra"
      [] kind = "IdCitation" -> "id"
      [] OTHER -> "unknown"

\* the entry built for one oracle record whose span is present, cn being
\* the case-name span found before it
EntryWith(t, r, cn) ==
    [span |-> r.span,
     text |-> Slice(t, r.span[1], r.span[2]),
     type |-> CitationType(r.kind),
     case_name |-> IF cn = None THEN None ELSE Slice(t, cn[1], cn[2]),
     case_name_span |-> cn]

\* prefix_text = text[:start]
CitationEntry(t, r) == EntryWith(t, r, CaseNameSpan(Take(t, r.span[1])))

\* an offset the oracle left out (Python's None inside the span tuple)
Missing == -1

\* not citation.span() or None in citation.span()
SpanMissing(span) == span = None \/ Missing \in {span[1], span[2]}

\* the loop without its `continue`: a record without offsets becomes an
\* entry too
RECURSIVE ConvertAllKeeping(_, _)
ConvertAllKeeping(t, recs) ==
    IF recs = <<>> THEN <<>>
    ELSE (IF SpanMissing(Head(recs).span)
          THEN <<[span |-> Head(recs).span, text |-> <<>>,
                  type |-> CitationType(Head(recs).kind),
                  case_name |-> None, case_name_span |-> None]>>
          ELSE <<CitationEntry(t, Head(recs))>>)
         \o ConvertAllKeeping(t, Tail(recs))

\* the loop over the oracle's records: a record without a span is skipped
RECURSIVE ConvertAll(_, _)
ConvertAll(t, recs) ==
    IF recs = <<>> THEN <<>>
    ELSE (IF SpanMissing(Head(recs).span) THEN <<>>
          ELSE <<CitationEntry(t, Head(recs))>>)
         \o ConvertAll(t, Tail(recs))

NoFault == -1

\* the records converted when the call ends: all of them, or those before the
\* exception: at = 0 is the oracle itself raising, at = k an exception while
\* record k is converted
ConvertedBefore(t, recs, at) ==
    ConvertAll(t, IF at = NoFault THEN recs ELSE SubSeq(recs, 1, at - 1))

\* an except branch that returns the entries built so far
IdentifyOnExceptionPartial(entries) == entries

\* except Exception: return []
IdentifyOnException(entries) == <<>>

\* return result, or the except branch
IdentifyReturn(entries, at) ==
    IF at = NoFault THEN entries ELSE IdentifyOnException(entries)

\* identify_citations(text), the oracle answering recs and faulting at `at`
IdentifyCitations(t, recs, at) ==
    IF t = <<>> THEN <<>>
    ELSE IdentifyReturn(ConvertedBefore(t, recs, at), at)

\* get_citations is reached only past the `if not text` return
OracleCallsFor(t) == IF t = <<>> THEN 0 ELSE 1

------------------------------------------------------------------------------
(* filter_citations.                                                       *)

ValidStrategies == {"remove", "replace", "remove_with_names", "names_only"}

\* the offset at which the run of whitespace that starts at offset i ends
RunEnd(s, i) ==
    CHOOSE j \in i..Len(s) :
        /\ \A k \in i..(j - 1) : IsSpace(At(s, k))
        /\ j = Len(s) \/ ~IsSpace(At(s, j))

\* re.sub(r'\s+', ' ', s): every run of whitespace becomes one space
RECURSIVE CollapseAnySpace(_, _)
CollapseAnySpace(s, i) ==
    IF i >= Len(s) THEN <<>>
    ELSE IF IsSpace(At(s, i))
         THEN <<" ">> \o CollapseAnySpace(s, RunEnd(s, i))
         ELSE <<At(s, i)>> \o CollapseAnySpace(s, i + 1)

\* re.sub(r'\s{2,}', ' ', s), scanning from offset i
RECURSIVE CollapseSpaces(_, _)
CollapseSpaces(s, i) ==
    IF i >= Len(s) THEN <<>>
    ELSE IF IsSpace(At(s, i)) /\ RunEnd(s, i) >= i + 2
         THEN <<" ">> \o CollapseSpaces(s, RunEnd(s, i))
         ELSE <<At(s, i)>> \o CollapseSpaces(s, i + 1)

\* re.sub(a \s* b, repl, s), scanning from offset i: the matches are taken
\* left to right and do not overlap
RECURSIVE SubPair(_, _, _, _, _)
SubPair(s, i, a, b, repl) ==
    IF i >= Len(s) THEN <<>>
    ELSE LET j == RunEnd(s, i + 1)
         IN  IF At(s, i) = a /\ j < Len(s) /\ At(s, j) = b
             THEN repl \o SubPair(s, j + 1, a, b, repl)
             ELSE <<At(s, i)>> \o SubPair(s, i + 1, a, b, repl)

\* the five substitutions that end filter_citations, in the code's order
Cleanup(s) ==
    LET s1 == CollapseSpaces(s, 0)
        s2 == SubPair(s1, 0, ",", ",", <<",">>)
        s3 == SubPair(s2, 0, ".", ".", <<".">>)
        s4 == SubPair(s3, 0, "(", ")", <<>>)
    IN  SubPair(s4, 0, "[", "]", <<>>)

\* the sort without reverse=True
RECURSIVE InsertByStartAsc(_, _)
InsertByStartAsc(c, sorted) ==
    IF sorted = <<>> THEN <<c>>
    ELSE IF Head(sorted).span[1] <= c.span[1]
         THEN <<Head(sorted)>> \o InsertByStartAsc(c, Tail(sorted))
         ELSE <<c>> \o sorted

RECURSIVE SortByStartAsc(_)
SortByStartAsc(cs) ==
    IF cs = <<>> THEN <<>>
    ELSE InsertByStartAsc(Head(cs), SortByStartAsc(Tail(cs)))

\* list.sort(key=start, reverse=True): stable, so c goes before the first
\* entry that does not start after it
RECURSIVE InsertByStartDesc(_, _)
InsertByStartDesc(c, sorted) ==
    IF sorted = <<>> THEN <<c>>
    ELSE IF Head(sorted).span[1] > c.span[1]
         THEN <<Head(sorted)>> \o InsertByStartDesc(c, Tail(sorted))
         ELSE <<c>> \o sorted

RECURSIVE SortByStartDesc(_)
SortByStartDesc(cs) ==
    IF cs = <<>> THEN <<>>
    ELSE InsertByStartDesc(Head(cs), SortByStartDesc(Tail(cs)))

\* result[:a] + middle + result[b:]
Splice(r, a, b, middle) == Take(r, a) \o middle \o Drop(r, b)

\* the loop body with a replace branch that inserts the placeholder and
\* leaves the citation in place
ApplyStrategyInserting(r, c, strat, ph) ==
    LET cs == c.span[1]
        ce == c.span[2]
        cn == c.case_name_span
    IN  CASE strat = "remove" -> Splice(r, cs, ce, <<>>)
          [] strat = "replace" -> Splice(r, cs, cs, ph)
          [] strat = "remove_with_names" ->
                IF cn # None
                THEN LET r1 == Splice(r, cs, ce, <<>>)
                     IN  Splice(r1, cn[1], cn[2], <<>>)
                ELSE Splice(r, cs, ce, <<>>)
          [] strat = "names_only" ->
                IF cn # None THEN Splice(r, cn[1], cn[2], <<>>) ELSE r

\* the loop body with a remove_with_names branch that deletes the case name
\* first and then the citation at its offsets in the text
ApplyStrategyNameFirst(r, c, strat, ph) ==
    LET cs == c.span[1]
        ce == c.span[2]
        cn == c.case_name_span
    IN  CASE strat = "remove" -> Splice(r, cs, ce, <<>>)
          [] strat = "replace" -> Splice(r, cs, ce, ph)
          [] strat = "remove_with_names" ->
                IF cn # None
                THEN LET r1 == Splice(r, cn[1], cn[2], <<>>)
                     IN  Splice(r1, cs, ce, <<>>)
                ELSE Splice(r, cs, ce, <<>>)
          [] strat = "names_only" ->
                IF cn # None THEN Splice(r, cn[1], cn[2], <<>>) ELSE r

\* the loop body with a names_only branch that deletes the citation too
ApplyStrategyNamesAndCitation(r, c, strat, ph) ==
    LET cs == c.span[1]
        ce == c.span[2]
        cn == c.case_name_span
    IN  CASE strat = "remove" -> Splice(r, cs, ce, <<>>)
          [] strat = "replace" -> Splice(r, cs, ce, ph)
          [] strat \in {"remove_with_names", "names_only"} ->
                IF cn # None
                THEN LET r1 == Splice(r, cs, ce, <<>>)
                     IN  Splice(r1, cn[1], cn[2], <<>>)
                ELSE Splice(r, cs, ce, <<>>)

\* the body of the loop over the sorted citations, for one citation
ApplyStrategy(r, c, strat, ph) ==
    LET cs == c.span[1]
        ce == c.span[2]
        cn == c.case_name_span
    IN  CASE strat = "remove" -> Splice(r, cs, ce, <<>>)
          [] strat = "replace" -> Splice(r, cs, ce, ph)
          [] strat = "remove_with_names" ->
                IF cn # None
                THEN LET r1 == Splice(r, cs, ce, <<>>)
                     IN  Splice(r1, cn[1], cn[2], <<>>)
                ELSE Splice(r, cs, ce, <<>>)
          [] strat = "names_only" ->
                IF cn # None THEN Splice(r, cn[1], cn[2], <<>>) ELSE r

\* the loop: the working string after every citation of cs was applied
RECURSIVE ApplyAll(_, _, _, _)
ApplyAll(r, cs, strat, ph) ==
    IF cs = <<>> THEN r
    ELSE ApplyAll(ApplyStrategy(r, Head(cs), strat, ph), Tail(cs), strat, ph)

\* the working string before the cleanup, cits being what identify_citations
\* returned: sort, apply
Rewritten(t, cits, strat, ph) ==
    ApplyAll(t, SortByStartDesc(cits), strat, ph)

\* an except branch that returns the working string
FilterOnExceptionWorking(t, r) == r

\* except Exception: return text
FilterOnException(t, r) == t

------------------------------------------------------------------------------
(* The inputs.  A text is built of at most MaxSegs segments of a vocabulary, *)
(* and the oracle reports at most MaxCits citations, each the span of one  *)
(* segment, no two of the same segment (eyecite's citations are those of   *)
(* distinct tokens), in the order of the text or in the opposite order.    *)

\* a case name, the characters that may separate it from its citation, a
\* character no case name holds, and a lower-case letter
Vocabulary ==
    { <<"A", " ", "v", " ", "B">>, <<" ">>, <<",">>, <<"1">>, <<"x">> }

SmallVocabulary == { <<"A", " ", "v", " ", "B">>, <<" ">>, <<"1">> }

\* the text of test_identify_citations, cut at the citation eyecite reports
BrownParts ==
    << <<"T","h","e"," ","S","u","p","r","e","m","e"," ","C","o","u","r","t",
         "'","s"," ","d","e","c","i","s","i","o","n"," ","i","n"," ",
         "B","r","o","w","n"," ","v","."," ","B","o","a","r","d"," ","o","f",
         " ","E","d","u","c","a","t","i","o","n",","," ">>,
       <<"3","4","7"," ","U",".","S","."," ","4","8","3">>,
       <<" ","(","1","9","5","4",")",","," ","c","h","a","n","g","e","d"," ",
         "e","d","u","c","a","t","i","o","n"," ","l","a","w",".">> >>

\* a case name set with tabs, between tabs, and its citation
TabParts ==
    << <<"\t">>, <<"A", "\t", "v", "\t", "B">>, <<"\t">>, <<"1">> >>

\* the characters the cleanup pass looks at, and a letter
CleanAlphabet == {" ", "\n", ",", ".", "(", ")", "[", "]", "a"}

DefaultPlaceholder == <<"[", "C", "I", "T", "A", "T", "I", "O", "N", "]">>

Placeholders == {DefaultPlaceholder, <<"x">>}

Strategies == ValidStrategies \cup {"bogus"}

SegLists(voc, n) == UNION {[1..k -> voc] : k \in 0..n}

RECURSIVE Flatten(_)
Flatten(parts) ==
    IF parts = <<>> THEN <<>> ELSE Head(parts) \o Flatten(Tail(parts))

\* the span of segment k of the text built of parts
SegSpan(parts, k) ==
    LET start == Len(Flatten(SubSeq(parts, 1, k - 1)))
    IN  <<start, start + Len(parts[k])>>

\* k of m segments, in the order of the text or in the opposite order
Selections(k, m) ==
    {f \in [1..k -> 1..m] : \/ \A a, b \in 1..k : a < b => f[a] < f[b]
                            \/ \A a, b \in 1..k : a < b => f[a] > f[b]}

OracleAnswers(parts) ==
    UNION {{[i \in 1..k |-> [span |-> SegSpan(parts, f[i]),
                              kind |-> "FullCaseCitation"]] :
                f \in Selections(k, Len(parts))} :
            k \in 0..Min(MaxCits, Len(parts))}

\* what the oracle may report for a text built of parts: the span of a
\* segment, no span, or a span with one offset left out
Reports(parts) ==
    {SegSpan(parts, k) : k \in 1..Len(parts)}
        \cup {None, <<Missing, Len(Flatten(parts))>>, <<0, Missing>>}

\* the answers with records whose offsets are absent: no segment twice
OracleAnswersWithGaps(parts) ==
    UNION {{[i \in 1..k |-> [span |-> f[i], kind |-> "FullCaseCitation"]] :
                f \in {g \in [1..k -> Reports(parts)] :
                        \A a, b \in 1..k :
                            (a < b /\ g[a] = g[b]) => SpanMissing(g[a])}} :
            k \in 0..MaxCits}

\* a call of citation_filter.py: nothing of tts_preparator.py is involved
\* the defaults of normalize_numbers, add_sentence_pauses, remove_urls and
\* use_dictionary_filter
NoOptions ==
    [normalize_numbers |-> TRUE, add_sentence_pauses |-> TRUE,
     remove_urls |-> FALSE, use_dictionary_filter |-> FALSE]

Unprepared ==
    /\ sources = <<>>
    /\ word_set = {}
    /\ remove_digits = FALSE
    /\ abbreviation_dict = <<>>
    /\ opened = <<>>
    /\ loads = 0
    /\ options = NoOptions

Idle ==
    /\ op = "none"
    /\ strategy = "none"
    /\ placeholder = <<>>
    /\ fault = "none"
    /\ outcome = "pending"
    /\ result = None
    /\ citations = <<>>
    /\ working = <<>>
    /\ converted = <<>>
    /\ oracleCalls = 0

Init ==
    /\ \E parts \in SegLists(Vocabulary, MaxSegs) \cup {TabParts} :
            /\ text = Flatten(parts)
            /\ oracle \in OracleAnswers(parts)
    /\ Idle
    /\ Unprepared

\* the same texts, and the sentence of the test suite
InitIdentify ==
    /\ \E parts \in SegLists(Vocabulary, MaxSegs) \cup {BrownParts} :
            /\ text = Flatten(parts)
            /\ oracle \in OracleAnswers(parts)
    /\ Idle
    /\ Unprepared

InitSmall ==
    /\ \E parts \in SegLists(SmallVocabulary, MaxSegs) :
            /\ text = Flatten(parts)
            /\ oracle \in OracleAnswers(parts)
    /\ Idle
    /\ Unprepared

\* the small texts, the oracle leaving offsets out
InitGaps ==
    /\ \E parts \in SegLists(SmallVocabulary, MaxSegs) :
            /\ text = Flatten(parts)
            /\ oracle \in OracleAnswersWithGaps(parts)
    /\ Idle
    /\ Unprepared

\* texts over the cleanup's characters, in which the oracle finds nothing
InitClean ==
    /\ text \in UNION {[1..n -> CleanAlphabet] : n \in 0..MaxCleanLen}
    /\ oracle = <<>>
    /\ Idle
    /\ Unprepared

------------------------------------------------------------------------------
(* The calls.                                                              *)

\* identify_citations(text) with nothing raising
Identify ==
    /\ op = "none"
    /\ op' = "identify"
    /\ citations' = IdentifyCitations(text, oracle, NoFault)
    /\ outcome' = "returned"
    /\ oracleCalls' = OracleCallsFor(text)
    /\ UNCHANGED <<text, oracle, strategy, placeholder, fault, result,
                   working, converted>>
    /\ UNCHANGED prepVars

\* identify_citations(text) with the oracle, or the conversion of one of its
\* records, raising
IdentifyFault ==
    /\ op = "none"
    /\ text # <<>>
    /\ \E at \in 0..Len(oracle) :
            /\ converted' = ConvertedBefore(text, oracle, at)
            /\ citations' = IdentifyReturn(converted', at)
    /\ op' = "identify"
    /\ fault' = "oracle"
    /\ outcome' = "returned"
    /\ oracleCalls' = OracleCallsFor(text)
    /\ UNCHANGED <<text, oracle, strategy, placeholder, result, working>>
    /\ UNCHANGED prepVars

\* filter_citations(text, strategy, placeholder) with nothing raising inside
\* the try block
FilterCitations ==
    /\ op = "none"
    /\ \E st \in Strategies :
         \E ph \in (IF st = "replace" THEN Placeholders ELSE {DefaultPlaceholder}) :
            /\ strategy' = st
            /\ placeholder' = ph
            /\ IF text = <<>>
               THEN /\ outcome' = "returned"
                    /\ result' = <<>>
                    /\ oracleCalls' = 0
                    /\ UNCHANGED <<citations, working>>
               ELSE IF st \notin ValidStrategies
               THEN /\ outcome' = "raised"
                    /\ result' = None
                    /\ oracleCalls' = 0
                    /\ UNCHANGED <<citations, working>>
               ELSE /\ outcome' = "returned"
                    /\ citations' = IdentifyCitations(text, oracle, NoFault)
                    /\ working' = Rewritten(text, citations', st, ph)
                    /\ result' = Cleanup(working')
                    /\ oracleCalls' = OracleCallsFor(text)
    /\ op' = "filter"
    /\ UNCHANGED <<text, oracle, fault, converted>>
    /\ UNCHANGED prepVars

\* filter_citations with the exception thrown inside identify_citations
FilterOracleFault ==
    /\ op = "none"
    /\ text # <<>>
    /\ \E st \in ValidStrategies :
         \E ph \in (IF st = "replace" THEN Placeholders ELSE {DefaultPlaceholder}) :
          \E at \in 0..Len(oracle) :
            /\ strategy' = st
            /\ placeholder' = ph
            /\ converted' = ConvertedBefore(text, oracle, at)
            /\ result' = Cleanup(Rewritten(text,
                            IdentifyReturn(converted', at), st, ph))
    /\ op' = "filter"
    /\ fault' = "oracle"
    /\ outcome' = "returned"
    /\ oracleCalls' = OracleCallsFor(text)
    /\ UNCHANGED <<text, oracle, citations, working>>
    /\ UNCHANGED prepVars

\* filter_citations with the exception thrown in its own try block, after
\* identify_citations returned and `done` citations were applied
FilterRewriteFault ==
    /\ op = "none"
    /\ text # <<>>
    /\ \E st \in ValidStrategies :
         \E ph \in (IF st = "replace" THEN Placeholders ELSE {DefaultPlaceholder}) :
          LET sorted == SortByStartDesc(IdentifyCitations(text, oracle, NoFault))
          IN  \E done \in 0..Len(sorted) :
                /\ strategy' = st
                /\ placeholder' = ph
                /\ working' = ApplyAll(text, SubSeq(sorted, 1, done), st, ph)
                /\ result' = FilterOnException(text, working')
    /\ op' = "filter"
    /\ fault' = "rewrite"
    /\ outcome' = "returned"
    /\ oracleCalls' = OracleCallsFor(text)
    /\ UNCHANGED <<text, oracle, citations, converted>>
    /\ UNCHANGED prepVars

Next ==
    \/ Identify
    \/ IdentifyFault
    \/ FilterCitations
    \/ FilterOracleFault
    \/ FilterRewriteFault

\* every call, on the small vocabulary
Spec == InitSmall /\ [][Next]_vars

\* the calls of filter_citations in which nothing raises
SpecFilter == Init /\ [][FilterCitations]_vars

\* the calls of identify_citations
NextIdentify ==
    \/ Identify
    \/ IdentifyFault

SpecIdentify == InitIdentify /\ [][NextIdentify]_vars

\* identify_citations on answers with absent offsets
SpecGaps == InitGaps /\ [][Identify]_vars

\* the cleanup pass alone: filter_citations on texts without citations
SpecClean == InitClean /\ [][FilterCitations]_vars

------------------------------------------------------------------------------
(* tts_preparator.py: _load_dictionary.  The word lists are files of the   *)
(* environment; each is absent, readable, unreadable (open raises) or      *)
(* breaks (the read raises after the first line).                          *)

\* str.lower() of a string
RECURSIVE LowerCase(_)
LowerCase(w) ==
    IF w = <<>> THEN <<>> ELSE <<ToLower(Head(w))>> \o LowerCase(Tail(w))

\* str.strip()
RECURSIVE Strip(_)
Strip(w) ==
    IF w = <<>> THEN <<>>
    ELSE IF IsSpace(Head(w)) THEN Strip(Tail(w))
    ELSE IF IsSpace(w[Len(w)]) THEN Strip(SubSeq(w, 1, Len(w) - 1))
    ELSE w

\* stand-ins for the three built-in lists
BasicEnglish == { <<"t", "h", "e">>, <<"u", "s", "e">> }

BlacksLegal ==
    { <<"c", "o", "u", "r", "t">>, <<"m", "a", "s", "s">>,
      <<"c", "o", "m", "m", "o", "n", "w", "e", "a", "l", "t", "h">>,
      <<"m", "a", "s", "s", "a", "c", "h", "u", "s", "e", "t", "t", "s">>,
      <<"1", "s", "t">> }

Contractions == { <<"d", "o", "n", "'", "t">> }

\* the system_dictionaries list has five locations
NumSystemDictionaries == 5

LocationDigit == <<"1", "2", "3", "4", "5">>

\* the lines of the word list at location k: a word and an empty line
SystemLines(k) == << <<"S", LocationDigit[k], "\n">>, <<"\n">> >>

CustomLines == << <<" ", "L", "e", "x", "\n">>, <<" ", "\n">> >>

\* the words of the external corpus
CorpusWords == { <<"N", "l", "t", "k">> }

FileStates == {"absent", "readable", "unreadable", "breaks"}

\* import nltk fails with ImportError, or with another exception; or the
\* download or the corpus reader raises; or the corpus is there
CorpusStates ==
    {"not_installed", "import_raises", "download_raises", "available"}

\* for line in f: word = line.strip().lower(); if word: word_set.add(word)
ReadLines(ws, lines) ==
    ws \cup ({LowerCase(Strip(lines[i])) : i \in 1..Len(lines)} \ {<<>>})

\* what one file adds before its loop ends or raises
ReadFile(ws, state, lines) ==
    CASE state = "readable" -> ReadLines(ws, lines)
      [] state = "breaks" -> ReadLines(ws, SubSeq(lines, 1, 1))
      [] OTHER -> ws

\* the loop without its break: every location is probed
RECURSIVE ProbeEvery(_, _, _)
ProbeEvery(ws, k, system) ==
    IF k > NumSystemDictionaries THEN ws
    ELSE ProbeEvery(ReadFile(ws, system[k], SystemLines(k)), k + 1, system)

\* the loop over system_dictionaries from location k on: it stops after the
\* first list read to its end, and goes on after an exception
RECURSIVE ProbeSystem(_, _, _)
ProbeSystem(ws, k, system) ==
    IF k > NumSystemDictionaries THEN ws
    ELSE IF system[k] = "readable" THEN ReadFile(ws, system[k], SystemLines(k))
    ELSE ProbeSystem(ReadFile(ws, system[k], SystemLines(k)), k + 1, system)

\* the locations the loop opens from location k on, in the order it opens
\* them: os.path.exists guards the open, break follows a complete read, and
\* continue follows an exception
RECURSIVE OpenedFrom(_, _)
OpenedFrom(k, system) ==
    IF k > NumSystemDictionaries THEN <<>>
    ELSE IF system[k] = "absent" THEN OpenedFrom(k + 1, system)
    ELSE IF system[k] = "readable" THEN <<k>>
    ELSE <<k>> \o OpenedFrom(k + 1, system)

\* step 4: the corpus, when it loads
AddCorpus(ws, corpus) ==
    IF corpus = "available"
    THEN ws \cup {LowerCase(w) : w \in CorpusWords}
    ELSE ws

\* step 5: the custom dictionary; "none" is no path given
AddCustom(ws, custom) ==
    IF custom = "none" THEN ws ELSE ReadFile(ws, custom, CustomLines)

\* the exception of `import nltk` that is not an ImportError is not caught
LoadRaises(src) == src.corpus = "import_raises"

\* the set _load_dictionary returns
LoadedWords(src) ==
    AddCustom(AddCorpus(ProbeSystem(BasicEnglish \cup BlacksLegal, 1,
                                    src.system),
                        src.corpus),
              src.custom)
        \cup Contractions

SourceConfigs ==
    [system : [1..NumSystemDictionaries -> FileStates],
     corpus : CorpusStates,
     custom : FileStates \cup {"none"}]

InitLoad ==
    /\ text = <<>>
    /\ oracle = <<>>
    /\ Idle
    /\ sources \in SourceConfigs
    /\ word_set = {}
    /\ remove_digits = FALSE
    /\ abbreviation_dict = <<>>
    /\ opened = <<>>
    /\ loads = 0
    /\ options = NoOptions

\* the citation side of a state, left alone by the calls of tts_preparator.py
citationVars ==
    <<oracle, strategy, placeholder, fault, citations, working, converted,
      oracleCalls>>

\* _load_dictionary(custom_dictionary_path)
LoadDictionary ==
    /\ op = "none"
    /\ op' = "load"
    /\ IF LoadRaises(sources)
       THEN /\ outcome' = "raised"
            /\ word_set' = {}
       ELSE /\ outcome' = "returned"
            /\ word_set' = LoadedWords(sources)
    /\ opened' = OpenedFrom(1, sources.system)
    /\ loads' = loads + 1
    /\ UNCHANGED <<text, result, sources, remove_digits, abbreviation_dict,
                   options>>
    /\ UNCHANGED citationVars

SpecLoad == InitLoad /\ [][LoadDictionary]_vars

------------------------------------------------------------------------------
(* tts_preparator.py: remove_all_digits.  Each re.sub takes its matches    *)
(* from left to right in the string it is given, without overlap.          *)

Digits == {"0", "1", "2", "3", "4", "5", "6", "7", "8", "9"}

IsDigit(c) == c \in Digits

\* re.search(r'[0-9]', s)
HasDigit(s) == \E k \in 1..Len(s) : IsDigit(s[k])

\* \w
IsWordChar(c) == c \in Upper \cup Lower \cup Digits \cup {"_"}

\* \b at offset i of s
AtBoundary(s, i) ==
    (i > 0 /\ IsWordChar(At(s, i - 1))) # (i < Len(s) /\ IsWordChar(At(s, i)))

\* where the run of digits that starts at offset i ends (i when there is none)
DigitsEnd(s, i) ==
    CHOOSE j \in i..Len(s) :
        /\ \A k \in i..(j - 1) : IsDigit(At(s, k))
        /\ j = Len(s) \/ ~IsDigit(At(s, j))

\* the same for [\d,.]*
AmountEnd(s, i) ==
    CHOOSE j \in i..Len(s) :
        /\ \A k \in i..(j - 1) : At(s, k) \in Digits \cup {",", "."}
        /\ j = Len(s) \/ At(s, j) \notin Digits \cup {",", "."}

\* the literal lit stands at offset i of s
HasLit(s, i, lit) == i + Len(lit) <= Len(s) /\ SubSeq(s, i + 1, i + Len(lit)) = lit

NoMatch == -1

OrdinalSuffixes == { <<"s", "t">>, <<"n", "d">>, <<"r", "d">>, <<"t", "h">> }

Months ==
    { <<"J","a","n","u","a","r","y">>, <<"F","e","b","r","u","a","r","y">>,
      <<"M","a","r","c","h">>, <<"A","p","r","i","l">>, <<"M","a","y">>,
      <<"J","u","n","e">>, <<"J","u","l","y">>, <<"A","u","g","u","s","t">>,
      <<"S","e","p","t","e","m","b","e","r">>, <<"O","c","t","o","b","e","r">>,
      <<"N","o","v","e","m","b","e","r">>, <<"D","e","c","e","m","b","e","r">> }

\* the words of the three reference patterns, without their first letter
ReferenceWords ==
    [section |-> <<"e","c","t","i","o","n">>,
     paragraph |-> <<"a","r","a","g","r","a","p","h">>,
     page |-> <<"a","g","e">>]

ReferenceInitials ==
    [section |-> {"S", "s"}, paragraph |-> {"P", "p"}, page |-> {"P", "p"}]

\* \b(\d+)(st|nd|rd|th)\b at offset i: the end of the match
OrdinalEnd(s, i) ==
    LET j == DigitsEnd(s, i)
    IN  IF /\ AtBoundary(s, i)
           /\ j > i
           /\ \E suf \in OrdinalSuffixes : HasLit(s, j, suf)
           /\ AtBoundary(s, j + 2)
        THEN j + 2 ELSE NoMatch

\* \b[Ss]ection\s+\d+ at offset i, and the like for paragraph and page
ReferenceEnd(s, i, pat) ==
    LET w == i + 1 + Len(ReferenceWords[pat])
        d == RunEnd(s, w)
    IN  IF /\ AtBoundary(s, i)
           /\ At(s, i) \in ReferenceInitials[pat]
           /\ HasLit(s, i + 1, ReferenceWords[pat])
           /\ d > w
           /\ DigitsEnd(s, d) > d
        THEN DigitsEnd(s, d) ELSE NoMatch

\* \s+\d+,\s+\d+\b from offset w on, w being the end of a month's name
DateTailEnd(s, w) ==
    LET d1 == RunEnd(s, w)
        c == DigitsEnd(s, d1)
        d2 == RunEnd(s, c + 1)
        e == DigitsEnd(s, d2)
    IN  IF /\ w <= Len(s) /\ d1 > w /\ c > d1
           /\ c < Len(s) /\ At(s, c) = ","
           /\ d2 > c + 1 /\ e > d2
           /\ AtBoundary(s, e)
        THEN e ELSE NoMatch

\* the month whose name stands at offset i, <<>> when there is none
MonthAt(s, i) ==
    IF \E m \in Months : HasLit(s, i, m)
    THEN CHOOSE m \in Months : HasLit(s, i, m)
    ELSE <<>>

\* \b(January|...|December)\s+\d+,\s+\d+\b at offset i
DateEnd(s, i) ==
    IF AtBoundary(s, i) /\ MonthAt(s, i) # <<>>
    THEN DateTailEnd(s, i + Len(MonthAt(s, i)))
    ELSE NoMatch

\* \b\d{4}\b at offset i
YearEnd(s, i) ==
    IF /\ AtBoundary(s, i)
       /\ i + 4 <= Len(s)
       /\ \A k \in i..(i + 3) : IsDigit(At(s, k))
       /\ AtBoundary(s, i + 4)
    THEN i + 4 ELSE NoMatch

\* \$\d[\d,.]* at offset i
DollarEnd(s, i) ==
    IF At(s, i) = "$" /\ i + 1 < Len(s) /\ IsDigit(At(s, i + 1))
    THEN AmountEnd(s, i + 2) ELSE NoMatch

\* \b\d[\d,.]*\s*% at offset i
PercentEnd(s, i) ==
    LET p == RunEnd(s, AmountEnd(s, i + 1))
    IN  IF /\ AtBoundary(s, i)
           /\ IsDigit(At(s, i))
           /\ p < Len(s)
           /\ At(s, p) = "%"
        THEN p + 1 ELSE NoMatch

DigitPatterns ==
    <<"ordinal", "section", "paragraph", "page", "date", "year", "dollar", "percent">>

\* the end of the match of pattern pat at offset i of s, NoMatch when there is none
MatchEnd(s, i, pat) ==
    CASE i >= Len(s) -> NoMatch
      [] pat = "ordinal" -> OrdinalEnd(s, i)
      [] pat \in {"section", "paragraph", "page"} -> ReferenceEnd(s, i, pat)
      [] pat = "date" -> DateEnd(s, i)
      [] pat = "year" -> YearEnd(s, i)
      [] pat = "dollar" -> DollarEnd(s, i)
      [] pat = "percent" -> PercentEnd(s, i)

\* what the match of pat at offsets i..e of s is replaced with
Replacement(s, i, e, pat) ==
    CASE pat = "ordinal" -> <<"n", "u", "m", "b", "e", "r">> \o Slice(s, i, e - 2)
      [] pat = "section" -> <<"s", "e", "c", "t", "i", "o", "n", " ", "n", "u", "m", "b", "e", "r">>
      [] pat = "paragraph" -> <<"p", "a", "r", "a", "g", "r", "a", "p", "h", " ", "n", "u", "m", "b", "e", "r">>
      [] pat = "page" -> <<"p", "a", "g", "e", " ", "n", "u", "m", "b", "e", "r">>
      [] pat = "date" -> MonthAt(s, i) \o <<" ", "d", "a", "t", "e">>
      [] pat = "year" -> <<"y", "e", "a", "r">>
      [] pat = "dollar" -> <<"d", "o", "l", "l", "a", "r", " ", "a", "m", "o", "u", "n", "t">>
      [] pat = "percent" -> <<"p", "e", "r", "c", "e", "n", "t", "a", "g", "e", " ", "v", "a", "l", "u", "e">>

\* re.sub(pattern, replacement, s), read from offset i on
RECURSIVE SubFrom(_, _, _, _)
SubFrom(s, i, e, pat) ==
    IF i >= Len(s) THEN <<>>
    ELSE IF e # NoMatch
         THEN Replacement(s, i, e, pat) \o SubFrom(s, e, MatchEnd(s, e, pat), pat)
         ELSE <<At(s, i)>> \o SubFrom(s, i + 1, MatchEnd(s, i + 1, pat), pat)

Sub(s, pat) == SubFrom(s, 0, MatchEnd(s, 0, pat), pat)

\* the final step spares the digit 0
DeleteNonZeroDigits(s) == SelectSeq(s, LAMBDA c : c \notin Digits \ {"0"})

\* re.sub(r'[0-9]', '', text)
DeleteDigits(s) == SelectSeq(s, LAMBDA c : ~IsDigit(c))

\* ordinals are left as they are
OrdinalsUntouched(s) == s

Ordinals(s) == Sub(s, "ordinal")

RECURSIVE ApplyPatterns(_, _)
ApplyPatterns(s, k) ==
    IF k > Len(DigitPatterns) THEN s
    ELSE ApplyPatterns(Sub(s, DigitPatterns[k]), k + 1)

RemoveAllDigits(t) == DeleteDigits(ApplyPatterns(Ordinals(t), 2))

MaxDigitSegs == 3

DigitVocabulary ==
    { <<"1">>, <<"2", "0", "2", "0">>, <<"s", "t">>, <<"t", "h">>, <<" ">>,
      <<"$">>, <<"%">>, <<"x">>,
      <<"S", "e", "c", "t", "i", "o", "n", " ">>, <<"M", "a", "y", " ", "1", ",", " ">>,
      <<"S", "E", "C", "T", "I", "O", "N", " ">> }

DigitTexts == { Flatten(segs) : segs \in SegLists(DigitVocabulary, MaxDigitSegs) }

InitDigits ==
    /\ text \in DigitTexts
    /\ oracle = <<>>
    /\ Idle
    /\ Unprepared

RemoveDigits ==
    /\ op = "none"
    /\ op' = "remove_all_digits"
    /\ outcome' = "returned"
    /\ result' = RemoveAllDigits(text)
    /\ UNCHANGED <<text, prepVars>>
    /\ UNCHANGED citationVars

SpecDigits == InitDigits /\ [][RemoveDigits]_vars

------------------------------------------------------------------------------
(* tts_preparator.py: finalize_tts_text *)

\* re.sub(r'\s+', ' ', result)
RECURSIVE SqueezeWhitespace(_, _)
SqueezeWhitespace(s, i) ==
    IF i >= Len(s) THEN <<>>
    ELSE IF IsSpace(At(s, i))
         THEN <<" ">> \o SqueezeWhitespace(s, RunEnd(s, i))
         ELSE <<At(s, i)>> \o SqueezeWhitespace(s, i + 1)

Terminators == {".", "!", "?"}

\* where the run of [.!?] that starts at offset i ends
TerminatorsEnd(s, i) ==
    CHOOSE j \in i..Len(s) :
        /\ \A k \in i..(j - 1) : At(s, k) \in Terminators
        /\ j = Len(s) \/ At(s, j) \notin Terminators

MinRun == 2

\* only runs of three and more are reduced
RECURSIVE CollapseLongTerminators(_, _)
CollapseLongTerminators(s, i) ==
    IF i >= Len(s) THEN <<>>
    ELSE IF TerminatorsEnd(s, i) >= i + MinRun + 1
         THEN <<At(s, TerminatorsEnd(s, i) - 1)>>
                  \o CollapseLongTerminators(s, TerminatorsEnd(s, i))
         ELSE <<At(s, i)>> \o CollapseLongTerminators(s, i + 1)

\* re.sub(r'([.!?]){2,}', r'\1', result): the group holds the last character
\* of the run
RECURSIVE CollapseTerminators(_, _)
CollapseTerminators(s, i) ==
    IF i >= Len(s) THEN <<>>
    ELSE IF TerminatorsEnd(s, i) >= i + MinRun
         THEN <<At(s, TerminatorsEnd(s, i) - 1)>>
                  \o CollapseTerminators(s, TerminatorsEnd(s, i))
         ELSE <<At(s, i)>> \o CollapseTerminators(s, i + 1)

HasDoubleSpace(s) == \E k \in 1..(Len(s) - 1) : s[k] = " " /\ s[k + 1] = " "

\* result.replace('  ', ' ')
RECURSIVE HalveSpaces(_, _)
HalveSpaces(s, i) ==
    IF i >= Len(s) THEN <<>>
    ELSE IF HasLit(s, i, <<" ", " ">>)
         THEN <<" ">> \o HalveSpaces(s, i + 2)
         ELSE <<At(s, i)>> \o HalveSpaces(s, i + 1)

\* while '  ' in result: ...
RECURSIVE NoDoubleSpaces(_)
NoDoubleSpaces(s) ==
    IF HasDoubleSpace(s) THEN NoDoubleSpaces(HalveSpaces(s, 0)) ELSE s

FinalizeTtsText(t) ==
    NoDoubleSpaces(CollapseTerminators(Strip(SqueezeWhitespace(t, 0)), 0))

MaxFinalLen == 4

FinalAlphabet == {" ", "\n", ".", "!", "?", "a"}

FinalTexts == UNION { [1..n -> FinalAlphabet] : n \in 0..MaxFinalLen }

InitFinalize ==
    /\ text \in FinalTexts
    /\ oracle = <<>>
    /\ Idle
    /\ Unprepared

Finalize ==
    /\ op = "none"
    /\ op' = "finalize_tts_text"
    /\ outcome' = "returned"
    /\ result' = FinalizeTtsText(text)
    /\ UNCHANGED <<text, prepVars>>
    /\ UNCHANGED citationVars

SpecFinalize == InitFinalize /\ [][Finalize]_vars

------------------------------------------------------------------------------
(* tts_preparator.py: expand_abbreviations.  The dictionary is the sequence  *)
(* of its items in insertion order, the keys distinct.                       *)

\* sorted(..., key=len, reverse=True) is stable: a key goes behind the keys
\* that are as long as it is
RECURSIVE InsertByLenDesc(_, _)
InsertByLenDesc(item, sorted) ==
    IF sorted = <<>> THEN <<item>>
    ELSE IF Len(Head(sorted).abbrev) >= Len(item.abbrev)
         THEN <<Head(sorted)>> \o InsertByLenDesc(item, Tail(sorted))
         ELSE <<item>> \o sorted

RECURSIVE SortedAbbrevs(_)
SortedAbbrevs(items) ==
    IF items = <<>> THEN <<>>
    ELSE InsertByLenDesc(items[Len(items)],
                         SortedAbbrevs(SubSeq(items, 1, Len(items) - 1)))

\* r'\b' + re.escape(abbrev) + r'\b' matches at offset i of s
AbbrevAt(s, i, abbrev) ==
    /\ AtBoundary(s, i)
    /\ HasLit(s, i, abbrev)
    /\ AtBoundary(s, i + Len(abbrev))

\* re.sub(pattern, abbreviation_dict[abbrev], result), read from offset i on
RECURSIVE ExpandOne(_, _, _)
ExpandOne(s, i, item) ==
    IF i >= Len(s) THEN <<>>
    ELSE IF AbbrevAt(s, i, item.abbrev)
         THEN item.expansion \o ExpandOne(s, i + Len(item.abbrev), item)
         ELSE <<At(s, i)>> \o ExpandOne(s, i + 1, item)

RECURSIVE ExpandEach(_, _)
ExpandEach(s, items) ==
    IF items = <<>> THEN s
    ELSE ExpandEach(ExpandOne(s, 0, Head(items)), Tail(items))

ExpandAbbreviations(t, dict) == ExpandEach(t, SortedAbbrevs(dict))

MaxAbbrevSegs == 3

AbbrevVocabulary ==
    { <<"D", "r", ".">>, <<"N", "A", "S", "A">>, <<" ">>, <<"L", "e", "e">>,
      <<"X">> }

AbbrevTexts == { Flatten(segs) : segs \in SegLists(AbbrevVocabulary, MaxAbbrevSegs) }

AbbrevItems ==
    { [abbrev |-> <<"D", "r", ".">>, expansion |-> <<"D", "o", "c", "t", "o", "r">>],
      [abbrev |-> <<"D", "r">>, expansion |-> <<"D", "e", "a", "n">>],
      [abbrev |-> <<"N", "A", "S", "A">>, expansion |-> <<"A", "g", "e", "n", "c", "y">>] }

\* the dictionaries: the items in any order of insertion, no key twice
AbbrevDicts ==
    { d \in UNION { [1..n -> AbbrevItems] : n \in 0..Cardinality(AbbrevItems) } :
        \A j, k \in 1..Len(d) : j # k => d[j].abbrev # d[k].abbrev }

InitAbbrev ==
    /\ text \in AbbrevTexts
    /\ oracle = <<>>
    /\ Idle
    /\ sources = <<>>
    /\ word_set = {}
    /\ remove_digits = FALSE
    /\ abbreviation_dict \in AbbrevDicts
    /\ opened = <<>>
    /\ loads = 0
    /\ options = NoOptions

ExpandAbbrevs ==
    /\ op = "none"
    /\ op' = "expand_abbreviations"
    /\ outcome' = "returned"
    /\ result' = ExpandAbbreviations(text, abbreviation_dict)
    /\ UNCHANGED <<text, prepVars>>
    /\ UNCHANGED citationVars

SpecAbbrev == InitAbbrev /\ [][ExpandAbbrevs]_vars

------------------------------------------------------------------------------
(* tts_preparator.py: _break_concatenated_words *)

IsLetter(c) == c \in Upper \cup Lower

\* where the run of letters that starts at offset i ends
LettersEnd(s, i) ==
    CHOOSE j \in i..Len(s) :
        /\ \A k \in i..(j - 1) : IsLetter(At(s, k))
        /\ j = Len(s) \/ ~IsLetter(At(s, j))

MinLongWord == 12

ScanCapitalsOver == 20

MaxKnownLen == 12

MinKnownLen == 3

EndingsOver == 5

ChunkOver == 25

ChunkLen == 5

\* re.findall(r'\b[A-Za-z]{12,}\b', text), read from offset i on
RECURSIVE LongWords(_, _)
LongWords(s, i) ==
    IF i >= Len(s) THEN <<>>
    ELSE IF /\ AtBoundary(s, i)
            /\ LettersEnd(s, i) - i >= MinLongWord
            /\ AtBoundary(s, LettersEnd(s, i))
         THEN <<Slice(s, i, LettersEnd(s, i))>> \o LongWords(s, LettersEnd(s, i))
         ELSE LongWords(s, i + 1)

Offsets(w) == [k \in 1..(Len(w) - 1) |-> k]

\* a lowercase letter followed by an uppercase one
CamelBreaks(w) ==
    SelectSeq(Offsets(w), LAMBDA i : At(w, i - 1) \in Lower /\ At(w, i) \in Upper)

\* every capital that is not the first letter
CapitalBreaks(w) == SelectSeq(Offsets(w), LAMBDA i : At(w, i) \in Upper)

\* the lengths of the lexicon words that start at offset i of w
KnownLens(w, ws, i) ==
    { n \in MinKnownLen..Min(MaxKnownLen, Len(w) - i) :
        LowerCase(Slice(w, i, i + n)) \in ws }

Longest(lens) == CHOOSE n \in lens : \A m \in lens : m <= n

\* the scan for lexicon words, the longest one first, from offset i on
RECURSIVE KnownBreaks(_, _, _)
KnownBreaks(w, ws, i) ==
    IF i >= Len(w) THEN <<>>
    ELSE IF KnownLens(w, ws, i) = {} THEN KnownBreaks(w, ws, i + 1)
    ELSE (IF i + Longest(KnownLens(w, ws, i)) < Len(w)
          THEN <<i + Longest(KnownLens(w, ws, i))>> ELSE <<>>)
         \o KnownBreaks(w, ws, i + Longest(KnownLens(w, ws, i)))

NameEndings ==
    << <<"s","o","n">>, <<"t","o","n">>, <<"l","e","y">>, <<"m","a","n">>,
       <<"a","r","d">>, <<"n","e","r">>, <<"t","e","r">>, <<"i","n","g">>,
       <<"f","o","r","d">>, <<"b","e","r","g">>, <<"b","u","r","g">> >>

\* the break before a name ending the word ends with, one entry per ending
RECURSIVE EndingBreaks(_, _)
EndingBreaks(w, k) ==
    IF k > Len(NameEndings) THEN <<>>
    ELSE (IF /\ Len(w) > Len(NameEndings[k])
             /\ HasLit(LowerCase(w), Len(w) - Len(NameEndings[k]), NameEndings[k])
          THEN <<Len(w) - Len(NameEndings[k])>> ELSE <<>>)
         \o EndingBreaks(w, k + 1)

WithCapitals(w, camel) ==
    IF camel = <<>> \/ Len(w) > ScanCapitalsOver
    THEN camel \o CapitalBreaks(w) ELSE camel

WithKnown(w, ws, breaks) ==
    IF breaks = <<>> THEN KnownBreaks(w, ws, 0) ELSE breaks

PotentialBreaks(w, ws) ==
    WithKnown(w, ws, WithCapitals(w, CamelBreaks(w)))
        \o (IF Len(w) > EndingsOver THEN EndingBreaks(w, 1) ELSE <<>>)

RECURSIVE InsertBreak(_, _)
InsertBreak(b, sorted) ==
    IF sorted = <<>> THEN <<b>>
    ELSE IF Head(sorted) <= b THEN <<Head(sorted)>> \o InsertBreak(b, Tail(sorted))
    ELSE <<b>> \o sorted

RECURSIVE SortedBreaks(_)
SortedBreaks(breaks) ==
    IF breaks = <<>> THEN <<>>
    ELSE InsertBreak(Head(breaks), SortedBreaks(Tail(breaks)))

\* the rest of the word after the last break is forgotten
RECURSIVE SpacedWithoutRest(_, _, _)
SpacedWithoutRest(w, breaks, last) ==
    IF breaks = <<>> THEN <<>>
    ELSE Slice(w, last, Head(breaks)) \o <<" ">>
             \o SpacedWithoutRest(w, Tail(breaks), Head(breaks))

\* new_word: the pieces between the sorted breaks, a space after each break
RECURSIVE Spaced(_, _, _)
Spaced(w, breaks, last) ==
    IF breaks = <<>> THEN Slice(w, last, Len(w))
    ELSE Slice(w, last, Head(breaks)) \o <<" ">>
             \o Spaced(w, Tail(breaks), Head(breaks))

\* new_word of the fallback: pieces of five characters, a space after each
RECURSIVE Chunks(_, _)
Chunks(w, i) ==
    IF i >= Len(w) THEN <<>>
    ELSE Slice(w, i, i + ChunkLen) \o <<" ">> \o Chunks(w, i + ChunkLen)

\* only the first occurrence is replaced
RECURSIVE ReplaceFirst(_, _, _, _)
ReplaceFirst(s, i, old, new) ==
    IF i >= Len(s) THEN <<>>
    ELSE IF HasLit(s, i, old) THEN new \o Slice(s, i + Len(old), Len(s))
    ELSE <<At(s, i)>> \o ReplaceFirst(s, i + 1, old, new)

\* text.replace(old, new), read from offset i on: every occurrence
RECURSIVE Replace(_, _, _, _)
Replace(s, i, old, new) ==
    IF i >= Len(s) THEN <<>>
    ELSE IF HasLit(s, i, old) THEN new \o Replace(s, i + Len(old), old, new)
    ELSE <<At(s, i)>> \o Replace(s, i + 1, old, new)

\* the body of the loop for one long word, breaks being its potential breaks
BreakWord(t, w, ws, breaks) ==
    IF LowerCase(w) \in ws THEN t
    ELSE IF breaks # <<>>
         THEN Replace(t, 0, w, Strip(Spaced(w, SortedBreaks(breaks), 0)))
    ELSE IF Len(w) > ChunkOver
         THEN Replace(t, 0, w, Strip(Chunks(w, 0)))
    ELSE t

RECURSIVE BreakEach(_, _, _)
BreakEach(t, words, ws) ==
    IF words = <<>> THEN t
    ELSE BreakEach(BreakWord(t, Head(words), ws, PotentialBreaks(Head(words), ws)),
                   Tail(words), ws)

BreakConcatenatedWords(t, ws) == BreakEach(t, LongWords(t, 0), ws)

MaxBreakSegs == 3

BreakVocabulary ==
    { <<"B","i","a","n","c","o">>, <<"B","r","a","n","d","i">>,
      <<"q","q","q","q","q","q","q","q","q","q","q","q","q">>,
      <<"c","o","u","r","t","t","h","e","c","o","u","r","t">>,
      <<"c","o","u","r","t","t","h","e","c","o","u","r","t","s">>,
      <<"s","o","n">>, <<" ">>, <<"1">> }

BreakTexts == { Flatten(segs) : segs \in SegLists(BreakVocabulary, MaxBreakSegs) }

\* lexicons: the stand-ins of the built-in lists, with or without two long runs
BreakLexicons ==
    { BasicEnglish \cup BlacksLegal \cup extra :
        extra \in SUBSET { <<"c","o","u","r","t","t","h","e","c","o","u","r","t","s">>,
                           <<"b","i","a","n","c","o","b","r","a","n","d","i">> } }

InitBreak ==
    /\ text \in BreakTexts
    /\ oracle = <<>>
    /\ Idle
    /\ sources = <<>>
    /\ word_set \in BreakLexicons
    /\ remove_digits = FALSE
    /\ abbreviation_dict = <<>>
    /\ opened = <<>>
    /\ loads = 0
    /\ options = NoOptions

BreakWords ==
    /\ op = "none"
    /\ op' = "_break_concatenated_words"
    /\ outcome' = "returned"
    /\ result' = BreakConcatenatedWords(text, word_set)
    /\ UNCHANGED <<text, prepVars>>
    /\ UNCHANGED citationVars

SpecBreak == InitBreak /\ [][BreakWords]_vars

------------------------------------------------------------------------------
(* tts_preparator.py: apply_dictionary_filter, the retention of one token *)

Punctuation == {".", ",", ";", ":", "!", "?"}

MaxTokenLen == 20

\* the suffixes the contraction rule takes out of the lowercased token
ContractionParts ==
    { <<"'">>, <<"'", "s">>, <<"'", "t">>, <<"'", "v", "e">>, <<"'", "r", "e">>,
      <<"'", "l", "l">>, <<"'", "d">> }

Allowlist ==
    { <<"v">>, <<"v", "s">>, <<"e", "t", "c">>, <<"i", "e">>, <<"e", "g">>,
      <<"c", "o">>, <<"i", "n", "c">>, <<"l", "l", "c">>, <<"l", "l", "p">>,
      <<"j", "r">>, <<"s", "r">>, <<"n", "o">>, <<"i", "d">>, <<"o", "p">> }

Has(token, c) == \E k \in 1..Len(token) : token[k] = c

\* token in '.,;:!?'
IsPunctuation(token) == Len(token) = 1 /\ token[1] \in Punctuation

InLexicon(token, ws) == LowerCase(token) \in ws \/ token \in ws

IsContraction(token, ws) ==
    /\ Has(token, "'")
    /\ \E part \in ContractionParts :
           Replace(LowerCase(token), 0, part, <<>>) \in ws

\* token.split("-"): the parts from offset i on
RECURSIVE SplitHyphen(_, _)
SplitHyphen(token, i) ==
    IF \E k \in i..(Len(token) - 1) : At(token, k) = "-"
    THEN LET k == CHOOSE k \in i..(Len(token) - 1) :
                      At(token, k) = "-" /\ \A j \in i..(k - 1) : At(token, j) # "-"
         IN  <<Slice(token, i, k)>> \o SplitHyphen(token, k + 1)
    ELSE <<Slice(token, i, Len(token))>>

PartsInLexicon(token, ws) ==
    \A k \in 1..Len(SplitHyphen(token, 0)) :
        SplitHyphen(token, 0)[k] # <<>>
            => LowerCase(SplitHyphen(token, 0)[k]) \in ws

IsHyphenated(token, ws) == Has(token, "-") /\ PartsInLexicon(token, ws)

IsSingleLetter(token) == Len(token) = 1 /\ IsLetter(token[1])

IsAllowlisted(token) == LowerCase(token) \in Allowlist

\* the lexicon is asked before the length is looked at
RetainedLexiconFirst(token, ws, rd) ==
    IF IsPunctuation(token) THEN TRUE
    ELSE IF rd /\ HasDigit(token) THEN FALSE
    ELSE IF InLexicon(token, ws) THEN TRUE
    ELSE IF Len(token) > MaxTokenLen THEN FALSE
    ELSE IsContraction(token, ws) \/ IsHyphenated(token, ws)
             \/ IsSingleLetter(token) \/ IsAllowlisted(token)

\* the body of `for token in tokens`: TRUE when the token is appended
Retained(token, ws, rd) ==
    IF IsPunctuation(token) THEN TRUE
    ELSE IF rd /\ HasDigit(token) THEN FALSE
    ELSE IF Len(token) > MaxTokenLen THEN FALSE
    ELSE IF InLexicon(token, ws) THEN TRUE
    ELSE IF IsContraction(token, ws) THEN TRUE
    ELSE IF IsHyphenated(token, ws) THEN TRUE
    ELSE IF IsSingleLetter(token) THEN TRUE
    ELSE IsAllowlisted(token)

\* [\w'\-]
IsTokenChar(c) == IsWordChar(c) \/ c \in {"'", "-"}

\* what re.findall(r'\b[\w\'\-]+\b|[.,;:!?]', sentence) can give: one
\* punctuation mark, or token characters with a word character at both ends
IsToken(s) ==
    \/ IsPunctuation(s)
    \/ /\ s # <<>>
       /\ \A k \in 1..Len(s) : IsTokenChar(s[k])
       /\ IsWordChar(s[1]) /\ IsWordChar(s[Len(s)])

MaxTokenSegs == 3

\* a word of 25 letters, for the lexicons that hold one
LongEntry ==
    <<"m","a","s","s","a","c","h","u","s","e","t","t","s",
      "c","o","m","m","o","n","w","e","a","l","t","h">>

TokenVocabulary ==
    { <<"t","h","e">>, <<"C","o","u","r","t">>, <<"d","o","n">>, <<"'">>,
      <<"t">>, <<"'", "t">>, <<"-">>, <<"1","s","t">>, <<"v","s">>, <<".">>,
      LongEntry }

Tokens ==
    { s \in { Flatten(segs) : segs \in SegLists(TokenVocabulary, MaxTokenSegs) } :
        IsToken(s) }

RetainLexicons ==
    { BasicEnglish \cup BlacksLegal \cup Contractions \cup extra :
        extra \in SUBSET {LongEntry} }

InitRetain ==
    /\ text \in Tokens
    /\ oracle = <<>>
    /\ Idle
    /\ sources = <<>>
    /\ word_set \in RetainLexicons
    /\ remove_digits \in BOOLEAN
    /\ abbreviation_dict = <<>>
    /\ opened = <<>>
    /\ loads = 0
    /\ options = NoOptions

\* one turn of the loop over the tokens, the text being the token
RetainToken ==
    /\ op = "none"
    /\ op' = "retain"
    /\ outcome' = "returned"
    /\ result' = IF Retained(text, word_set, remove_digits) THEN text ELSE <<>>
    /\ UNCHANGED <<text, prepVars>>
    /\ UNCHANGED citationVars

SpecRetain == InitRetain /\ [][RetainToken]_vars

------------------------------------------------------------------------------
(* tts_preparator.py: remove_all_urls and apply_dictionary_filter.  The     *)
(* patterns of remove_all_urls that need a parenthesis, a double quote or   *)
(* the word scholar match nothing in the texts drawn here and are left out. *)

\* where the run of non-whitespace that starts at offset i ends
NonSpaceEnd(s, i) ==
    CHOOSE j \in i..Len(s) :
        /\ \A k \in i..(j - 1) : ~IsSpace(At(s, k))
        /\ j = Len(s) \/ IsSpace(At(s, j))

\* [a-zA-Z0-9]
IsAlnum(c) == IsLetter(c) \/ IsDigit(c)

\* where the run of [a-zA-Z0-9-] that starts at offset i ends
LabelEnd(s, i) ==
    CHOOSE j \in i..Len(s) :
        /\ \A k \in i..(j - 1) : IsAlnum(At(s, k)) \/ At(s, k) = "-"
        /\ j = Len(s) \/ ~(IsAlnum(At(s, j)) \/ At(s, j) = "-")

MinTld == 2

\* https?://\S+ at offset i
HttpEnd(s, i) ==
    LET h == IF HasLit(s, i, <<"h", "t", "t", "p", "s">>) THEN i + 5 ELSE i + 4
    IN  IF /\ HasLit(s, i, <<"h", "t", "t", "p">>)
           /\ HasLit(s, h, <<":", "/", "/">>)
           /\ NonSpaceEnd(s, h + 3) > h + 3
        THEN NonSpaceEnd(s, h + 3) ELSE NoMatch

\* www\.\S+ at offset i
WwwEnd(s, i) ==
    IF HasLit(s, i, <<"w", "w", "w", ".">>) /\ NonSpaceEnd(s, i + 4) > i + 4
    THEN NonSpaceEnd(s, i + 4) ELSE NoMatch

\* \b[a-zA-Z0-9][a-zA-Z0-9-]*\.[a-zA-Z]{2,}\b at offset i
DomainEnd(s, i) ==
    LET h == LabelEnd(s, i + 1)
    IN  IF /\ AtBoundary(s, i)
           /\ IsAlnum(At(s, i))
           /\ h < Len(s)
           /\ At(s, h) = "."
           /\ LettersEnd(s, h + 1) - (h + 1) >= MinTld
           /\ AtBoundary(s, LettersEnd(s, h + 1))
        THEN LettersEnd(s, h + 1) ELSE NoMatch

UrlEnd(s, i, pat) ==
    CASE i >= Len(s) -> NoMatch
      [] pat = "http" -> HttpEnd(s, i)
      [] pat = "www" -> WwwEnd(s, i)
      [] pat = "domain" -> DomainEnd(s, i)

\* re.sub(pattern, '', result), read from offset i on
RECURSIVE RemoveFrom(_, _, _, _)
RemoveFrom(s, i, e, pat) ==
    IF i >= Len(s) THEN <<>>
    ELSE IF e # NoMatch THEN RemoveFrom(s, e, UrlEnd(s, e, pat), pat)
    ELSE <<At(s, i)>> \o RemoveFrom(s, i + 1, UrlEnd(s, i + 1, pat), pat)

Remove(s, pat) == RemoveFrom(s, 0, UrlEnd(s, 0, pat), pat)

RemoveAllUrls(t) ==
    Strip(SqueezeWhitespace(Remove(Remove(Remove(t, "http"), "www"), "domain"), 0))

\* re.split(r'([.!?])', text) and the loop that puts each terminator back
\* behind its sentence: the sentences from offset i on
RECURSIVE Sentences(_, _)
Sentences(s, i) ==
    IF \E k \in i..(Len(s) - 1) : At(s, k) \in Terminators
    THEN LET k == CHOOSE k \in i..(Len(s) - 1) :
                      /\ At(s, k) \in Terminators
                      /\ \A j \in i..(k - 1) : At(s, j) \notin Terminators
         IN  <<Slice(s, i, k + 1)>> \o Sentences(s, k + 1)
    ELSE <<Slice(s, i, Len(s))>>

\* [\s\w.,;:!?\'"-]
IsSentenceChar(c) ==
    IsSpace(c) \/ IsWordChar(c) \/ c \in Punctuation \cup {"'", "\"", "-"}

OtherEnd(s, i) ==
    CHOOSE j \in i..Len(s) :
        /\ \A k \in i..(j - 1) : ~IsSentenceChar(At(s, k))
        /\ j = Len(s) \/ IsSentenceChar(At(s, j))

\* re.sub(r'[^\s\w.,;:!?\'"-]+', ' ', sentence)
RECURSIVE CleanSentence(_, _)
CleanSentence(s, i) ==
    IF i >= Len(s) THEN <<>>
    ELSE IF ~IsSentenceChar(At(s, i))
         THEN <<" ">> \o CleanSentence(s, OtherEnd(s, i))
         ELSE <<At(s, i)>> \o CleanSentence(s, i + 1)

TokenCharsEnd(s, i) ==
    CHOOSE j \in i..Len(s) :
        /\ \A k \in i..(j - 1) : IsTokenChar(At(s, k))
        /\ j = Len(s) \/ ~IsTokenChar(At(s, j))

\* the ends \b[\w'\-]+\b can have at offset i
TokenEnds(s, i) ==
    IF AtBoundary(s, i)
    THEN { e \in (i + 1)..TokenCharsEnd(s, i) : AtBoundary(s, e) }
    ELSE {}

\* re.findall(r'\b[\w\'\-]+\b|[.,;:!?]', sentence), read from offset i on
RECURSIVE Tokenize(_, _)
Tokenize(s, i) ==
    IF i >= Len(s) THEN <<>>
    ELSE IF TokenEnds(s, i) # {}
         THEN <<Slice(s, i, Longest(TokenEnds(s, i)))>>
                  \o Tokenize(s, Longest(TokenEnds(s, i)))
    ELSE IF At(s, i) \in Punctuation
         THEN <<<<At(s, i)>>>> \o Tokenize(s, i + 1)
    ELSE Tokenize(s, i + 1)

\* ' '.join(items)
RECURSIVE JoinWithSpace(_)
JoinWithSpace(items) ==
    IF items = <<>> THEN <<>>
    ELSE IF Len(items) = 1 THEN items[1]
    ELSE items[1] \o <<" ">> \o JoinWithSpace(Tail(items))

\* re.sub(r'\s+([.,;:!?])', r'\1', filtered_sentence)
RECURSIVE TightenPunctuation(_, _)
TightenPunctuation(s, i) ==
    IF i >= Len(s) THEN <<>>
    ELSE IF /\ IsSpace(At(s, i))
            /\ RunEnd(s, i) < Len(s)
            /\ At(s, RunEnd(s, i)) \in Punctuation
         THEN <<At(s, RunEnd(s, i))>> \o TightenPunctuation(s, RunEnd(s, i) + 1)
         ELSE <<At(s, i)>> \o TightenPunctuation(s, i + 1)

FilterSentence(sentence, ws, rd) ==
    TightenPunctuation(
        JoinWithSpace(SelectSeq(Tokenize(CleanSentence(sentence, 0), 0),
                                LAMBDA token : Retained(token, ws, rd))),
        0)

FilterSentences(sentences, ws, rd) ==
    [k \in 1..Len(sentences) |-> FilterSentence(sentences[k], ws, rd)]

\* the text after the URLs, and the digits when asked, are removed
Prepared(t, rd) ==
    IF rd THEN RemoveAllDigits(RemoveAllUrls(t)) ELSE RemoveAllUrls(t)

ApplyDictionaryFilter(t, ws, rd) ==
    Strip(SqueezeWhitespace(
        JoinWithSpace(
            FilterSentences(
                Sentences(BreakConcatenatedWords(
                              SqueezeWhitespace(Prepared(t, rd), 0), ws), 0),
                ws, rd)),
        0))

MaxDictSegs == 3

DictVocabulary ==
    { <<"C","o","m","m","o","n","w","e","a","l","t","h">>,
      <<"M","a","s","s","a","c","h","u","s","e","t","t">>,
      <<"'", "s">>, <<"1", "s", "t">>, <<" ">>, <<".">>, <<"&">> }

DictTexts == { Flatten(segs) : segs \in SegLists(DictVocabulary, MaxDictSegs) }

\* no word list on the system and no custom one; the corpus package is not
\* installed, or its import raises
DictSources ==
    { src \in SourceConfigs :
        /\ \A k \in 1..NumSystemDictionaries : src.system[k] = "absent"
        /\ src.custom = "none"
        /\ src.corpus \in {"not_installed", "import_raises"} }

InitDictFilter ==
    /\ text \in DictTexts
    /\ oracle = <<>>
    /\ Idle
    /\ sources \in DictSources
    /\ word_set = {}
    /\ remove_digits \in BOOLEAN
    /\ abbreviation_dict = <<>>
    /\ opened = <<>>
    /\ loads = 0
    /\ options = NoOptions

ApplyFilter ==
    /\ op = "none"
    /\ op' = "apply_dictionary_filter"
    /\ IF LoadRaises(sources)
       THEN /\ outcome' = "raised"
            /\ word_set' = {}
            /\ result' = None
       ELSE /\ outcome' = "returned"
            /\ word_set' = LoadedWords(sources)
            /\ result' = ApplyDictionaryFilter(text, LoadedWords(sources),
                                               remove_digits)
    /\ opened' = OpenedFrom(1, sources.system)
    /\ loads' = loads + 1
    /\ UNCHANGED <<text, sources, remove_digits, abbreviation_dict, options>>
    /\ UNCHANGED citationVars

SpecDictFilter == InitDictFilter /\ [][ApplyFilter]_vars







------------------------------------------------------------------------------
(* _break_concatenated_words on texts that hold the same run more than once *)

MaxRepeatSegs == 3

RepeatVocabulary ==
    { <<"B","i","a","n","c","o">>, <<"B","r","a","n","d","i">>,
      <<"c","o","u","r","t","t","h","e","c","o","u","r","t">>, <<" ">>,
      <<"X", " ">> }

RepeatTexts == { Flatten(segs) : segs \in SegLists(RepeatVocabulary, MaxRepeatSegs) }

InitRepeat ==
    /\ text \in RepeatTexts
    /\ oracle = <<>>
    /\ Idle
    /\ sources = <<>>
    /\ word_set \in BreakLexicons
    /\ remove_digits = FALSE
    /\ abbreviation_dict = <<>>
    /\ opened = <<>>
    /\ loads = 0
    /\ options = NoOptions

SpecRepeat == InitRepeat /\ [][BreakWords]_vars



------------------------------------------------------------------------------
(* tts_preparator.py: a sequence of apply_dictionary_filter calls in one   *)
(* process.  Every call begins with _load_dictionary(custom_dictionary_   *)
(* path); between two calls the custom word list may change on disk.       *)

MaxCalls == 3
MaxCallSegs == 2

CallVocabulary == { <<"t", "h", "e">>, <<"L", "e", "x">>, <<" ">> }

CallTexts == { Flatten(segs) : segs \in SegLists(CallVocabulary, MaxCallSegs) }

CallSources ==
    { src \in SourceConfigs :
        /\ \A k \in 1..NumSystemDictionaries : src.system[k] = "absent"
        /\ src.corpus = "not_installed"
        /\ src.custom \in {"readable", "absent"} }

InitCalls ==
    /\ text \in CallTexts
    /\ oracle = <<>>
    /\ Idle
    /\ sources \in CallSources
    /\ word_set = {}
    /\ remove_digits = FALSE
    /\ abbreviation_dict = <<>>
    /\ opened = <<>>
    /\ loads = 0
    /\ options = NoOptions

\* one more call of apply_dictionary_filter, on the text it is given
FilterAgain ==
    /\ op \in {"none", "apply_dictionary_filter"}
    /\ loads < MaxCalls
    /\ op' = "apply_dictionary_filter"
    /\ text' \in CallTexts
    /\ outcome' = "returned"
    /\ word_set' = LoadedWords(sources)
    /\ result' = ApplyDictionaryFilter(text', LoadedWords(sources),
                                       remove_digits)
    /\ opened' = OpenedFrom(1, sources.system)
    /\ loads' = loads + 1
    /\ UNCHANGED <<sources, remove_digits, abbreviation_dict, options>>
    /\ UNCHANGED citationVars

\* the file at custom_dictionary_path is written or deleted between calls
CustomDictionaryChanges ==
    /\ op = "apply_dictionary_filter"
    /\ loads < MaxCalls
    /\ sources' = [sources EXCEPT
                       !.custom = IF @ = "readable" THEN "absent"
                                  ELSE "readable"]
    /\ UNCHANGED <<text, op, outcome, result, word_set, remove_digits,
                   abbreviation_dict, opened, loads, options>>
    /\ UNCHANGED citationVars

SpecCalls == InitCalls /\ [][FilterAgain \/ CustomDictionaryChanges]_vars

------------------------------------------------------------------------------
(* identify_citations on prefixes that hold the lead-in words of the       *)
(* fourth case-name pattern: one citation, at the end of the text.         *)

MaxLeadSegs == 4

LeadVocabulary ==
    { <<"i", "n">>, <<"s", "e", "e">>, <<"A", " ", "v", " ", "B">>, <<" ">>,
      <<",">>, <<"1">> }

InitLeadIn ==
    /\ \E segs \in SegLists(LeadVocabulary, MaxLeadSegs) :
            LET parts == Append(segs, <<"7">>)
            IN  /\ text = Flatten(parts)
                /\ oracle = <<[span |-> SegSpan(parts, Len(parts)),
                               kind |-> "FullCaseCitation"]>>
    /\ Idle
    /\ Unprepared

SpecLeadIn == InitLeadIn /\ [][Identify]_vars



------------------------------------------------------------------------------
(* tts_preparator.py: normalize_numeric_text.  Three re.sub calls, then    *)
(* the dates the pattern finds, rewritten from the last to the first.      *)

\* int() of a string of digits
RECURSIVE IntOf(_)
IntOf(ds) ==
    IF ds = <<>> THEN 0
    ELSE 10 * IntOf(SubSeq(ds, 1, Len(ds) - 1))
            + (CHOOSE v \in 0..9 : <<"0", "1", "2", "3", "4", "5", "6", "7",
                                     "8", "9">>[v + 1] = ds[Len(ds)])

\* str() of a natural number
RECURSIVE StrOf(_)
StrOf(n) ==
    IF n < 10 THEN <<<<"0", "1", "2", "3", "4", "5", "6", "7", "8", "9">>[n + 1]>>
    ELSE StrOf(n \div 10) \o StrOf(n % 10)

\* (\d+)-(\d+) at offset i: the end of the match
RangeEnd(s, i) ==
    LET e == DigitsEnd(s, i)
    IN  IF /\ e > i
           /\ e + 1 < Len(s)
           /\ At(s, e) = "-"
           /\ IsDigit(At(s, e + 1))
        THEN DigitsEnd(s, e + 1) ELSE NoMatch

\* the two characters the source file holds where a section sign is meant:
\* the letters U+0E22 and U+0E07, each written here by its code point
SectionSign == <<"U+0E22", "U+0E07">>

\* SectionSign \s*(\d+) at offset i: where the digits start and where they end
SignDigits(s, i) ==
    IF HasLit(s, i, SectionSign)
    THEN LET d == RunEnd(s, i + Len(SectionSign))
         IN  IF DigitsEnd(s, d) > d THEN <<d, DigitsEnd(s, d)>> ELSE None
    ELSE None

\* SectionSign \s*(\d+)\.(\d+) at offset i: the end of the match
SignPointEnd(s, i) ==
    LET g == SignDigits(s, i)
    IN  IF g = None THEN NoMatch
        ELSE IF /\ g[2] + 1 < Len(s)
                /\ At(s, g[2]) = "."
                /\ IsDigit(At(s, g[2] + 1))
             THEN DigitsEnd(s, g[2] + 1) ELSE NoMatch

SignEnd(s, i) == IF SignDigits(s, i) = None THEN NoMatch ELSE SignDigits(s, i)[2]

NumericPatterns == <<"range", "sign_point", "sign">>

NumericMatchEnd(s, i, pat) ==
    CASE i >= Len(s) -> NoMatch
      [] pat = "range" -> RangeEnd(s, i)
      [] pat = "sign_point" -> SignPointEnd(s, i)
      [] pat = "sign" -> SignEnd(s, i)

SectionWord == <<"S", "e", "c", "t", "i", "o", "n", " ">>

\* r'\1 to \2', r'Section \1 point \2' and r'Section \1'
NumericReplacement(s, i, e, pat) ==
    CASE pat = "range" ->
            Slice(s, i, DigitsEnd(s, i)) \o <<" ", "t", "o", " ">>
                \o Slice(s, DigitsEnd(s, i) + 1, e)
      [] pat = "sign_point" ->
            SectionWord \o Slice(s, SignDigits(s, i)[1], SignDigits(s, i)[2])
                \o <<" ", "p", "o", "i", "n", "t", " ">>
                \o Slice(s, SignDigits(s, i)[2] + 1, e)
      [] pat = "sign" ->
            SectionWord \o Slice(s, SignDigits(s, i)[1], e)

\* re.sub(pattern, replacement, s), read from offset i on
RECURSIVE NumericSubFrom(_, _, _)
NumericSubFrom(s, i, pat) ==
    IF i >= Len(s) THEN <<>>
    ELSE LET e == NumericMatchEnd(s, i, pat)
         IN  IF e # NoMatch
             THEN NumericReplacement(s, i, e, pat) \o NumericSubFrom(s, e, pat)
             ELSE <<At(s, i)>> \o NumericSubFrom(s, i + 1, pat)

RECURSIVE NumericSubs(_, _)
NumericSubs(s, k) ==
    IF k > Len(NumericPatterns) THEN s
    ELSE NumericSubs(NumericSubFrom(s, 0, NumericPatterns[k]), k + 1)

\* \d{1,2}/ at offset i: the offset after the slash
ShortNumberEnd(s, i) ==
    IF i + 2 < Len(s) /\ IsDigit(At(s, i)) /\ IsDigit(At(s, i + 1))
          /\ At(s, i + 2) = "/"
    THEN i + 3
    ELSE IF i + 1 < Len(s) /\ IsDigit(At(s, i)) /\ At(s, i + 1) = "/"
    THEN i + 2
    ELSE NoMatch

YearDigits == 4

\* \b at offset i of s, the letters of SectionSign being word characters
AtWordBoundary(s, i) ==
    LET IsWord(c) == IsWordChar(c) \/ c \in {"U+0E22", "U+0E07"}
    IN  (i > 0 /\ IsWord(At(s, i - 1))) # (i < Len(s) /\ IsWord(At(s, i)))

\* \b(\d{1,2})/(\d{1,2})/(\d{4})\b at offset i: the offsets at which the
\* day and the year start and the match ends
DateAt(s, i) ==
    IF i >= Len(s) \/ ~AtWordBoundary(s, i) \/ ShortNumberEnd(s, i) = NoMatch
    THEN None
    ELSE LET d == ShortNumberEnd(s, i)
             y == ShortNumberEnd(s, d)
         IN  IF /\ y # NoMatch
                /\ y + YearDigits <= Len(s)
                /\ \A k \in y..(y + YearDigits - 1) : IsDigit(At(s, k))
                /\ AtWordBoundary(s, y + YearDigits)
             THEN <<i, d, y, y + YearDigits>>
             ELSE None

\* list(re.finditer(date_pattern, result)), from offset i on
RECURSIVE DateMatches(_, _)
DateMatches(s, i) ==
    IF i >= Len(s) THEN <<>>
    ELSE IF DateAt(s, i) # None
         THEN <<DateAt(s, i)>> \o DateMatches(s, DateAt(s, i)[4])
         ELSE DateMatches(s, i + 1)

month_names ==
    << <<"J","a","n","u","a","r","y">>, <<"F","e","b","r","u","a","r","y">>,
       <<"M","a","r","c","h">>, <<"A","p","r","i","l">>, <<"M","a","y">>,
       <<"J","u","n","e">>, <<"J","u","l","y">>, <<"A","u","g","u","s","t">>,
       <<"S","e","p","t","e","m","b","e","r">>, <<"O","c","t","o","b","e","r">>,
       <<"N","o","v","e","m","b","e","r">>, <<"D","e","c","e","m","b","e","r">> >>

\* list[idx]: a negative index counts from the end of the list; None stands
\* for IndexError
ListItem(list, idx) ==
    IF 0 <= idx /\ idx < Len(list) THEN list[idx + 1]
    ELSE IF idx < 0 /\ -idx <= Len(list) THEN list[Len(list) + idx + 1]
    ELSE None

\* the body of the loop for one match m of the string s the match was found
\* in, r being the string edited so far
RewriteDate(r, s, m) ==
    LET month == Slice(s, m[1], m[2] - 1)
        day == Slice(s, m[2], m[3] - 1)
        year == Slice(s, m[3], m[4])
        month_name == ListItem(month_names, IntOf(month) - 1)
    IN  IF month_name = None THEN r
        ELSE Splice(r, m[1], m[4],
                    month_name \o <<" ">> \o StrOf(IntOf(day)) \o <<",", " ">>
                        \o year)

\* for match in reversed(matches), the first k matches still to do
RECURSIVE RewriteDates(_, _, _, _)
RewriteDates(r, s, matches, k) ==
    IF k = 0 THEN r
    ELSE RewriteDates(RewriteDate(r, s, matches[k]), s, matches, k - 1)

NormalizeNumericText(t) ==
    LET s == NumericSubs(t, 1)
    IN  RewriteDates(s, s, DateMatches(s, 0), Len(DateMatches(s, 0)))

MaxDateSegs == 3

DateVocabulary ==
    { <<"0", "/">>, <<"0", "0", "/">>, <<"1", "/">>, <<"1", "2", "/">>,
      <<"1", "3", "/">>, <<"0", "5", "/", "2", "0", "2", "0">>,
      <<"1", "/", "2", "0", "2", "0">>, <<" ">>, <<"-">>, SectionSign, <<".">>,
      <<"7">>, <<" ", "1", "3", "/", "1", "/", "2", "0", "2", "0">> }

DateTexts == { Flatten(segs) : segs \in SegLists(DateVocabulary, MaxDateSegs) }

InitDates ==
    /\ text \in DateTexts
    /\ oracle = <<>>
    /\ Idle
    /\ Unprepared

NormalizeNumeric ==
    /\ op = "none"
    /\ op' = "normalize_numeric_text"
    /\ outcome' = "returned"
    /\ result' = NormalizeNumericText(text)
    /\ UNCHANGED <<text, prepVars>>
    /\ UNCHANGED citationVars

SpecDates == InitDates /\ [][NormalizeNumeric]_vars



------------------------------------------------------------------------------
(* tts_preparator.py: ensure_sentence_pauses and prepare_for_tts, the      *)
(* stages in the order of the code.                                        *)

\* re.search(r'[.!?]$', s): $ also matches before a newline that ends s
EndsSentence(s) ==
    \/ Len(s) >= 1 /\ s[Len(s)] \in Terminators
    \/ Len(s) >= 2 /\ s[Len(s)] = "\n" /\ s[Len(s) - 1] \in Terminators

\* the characters of [^"'\s\]):]
StartsNext(c) == ~IsSpace(c) /\ c \notin {"\"", "'", "]", ")", ":"}

\* re.sub(r'([.!?])([^"\'\s\]):])', r'\1 \2', s), from offset i on
RECURSIVE SpaceAfterTerminators(_, _)
SpaceAfterTerminators(s, i) ==
    IF i >= Len(s) THEN <<>>
    ELSE IF At(s, i) \in Terminators /\ i + 1 < Len(s) /\ StartsNext(At(s, i + 1))
         THEN <<At(s, i), " ", At(s, i + 1)>> \o SpaceAfterTerminators(s, i + 2)
         ELSE <<At(s, i)>> \o SpaceAfterTerminators(s, i + 1)

PauseMarks == {".", ",", ";", ":", "!", "?"}

\* re.sub(r'\s+([.,;:!?])', r'\1', s), from offset i on
RECURSIVE NoSpaceBeforeMarks(_, _)
NoSpaceBeforeMarks(s, i) ==
    IF i >= Len(s) THEN <<>>
    ELSE IF /\ IsSpace(At(s, i))
            /\ RunEnd(s, i) < Len(s)
            /\ At(s, RunEnd(s, i)) \in PauseMarks
         THEN <<At(s, RunEnd(s, i))>> \o NoSpaceBeforeMarks(s, RunEnd(s, i) + 1)
         ELSE <<At(s, i)>> \o NoSpaceBeforeMarks(s, i + 1)

EnsureSentencePauses(t) ==
    LET ended == IF t # <<>> /\ ~EndsSentence(t) THEN Append(t, ".") ELSE t
    IN  NoSpaceBeforeMarks(SpaceAfterTerminators(ended, 0), 0)

\* the stages up to the digits, in an order that removes the digits first
EarlyStagesDigitsFirst(t, dict, opts, rd) ==
    LET s0 == IF rd THEN RemoveAllDigits(t) ELSE t
        s1 == IF dict # <<>> THEN ExpandAbbreviations(s0, dict) ELSE s0
    IN  IF opts.normalize_numbers THEN NormalizeNumericText(s1) ELSE s1

\* prepare_for_tts up to the removal of the digits
EarlyStages(t, dict, opts, rd) ==
    LET s1 == IF dict # <<>> THEN ExpandAbbreviations(t, dict) ELSE t
        s2 == IF opts.normalize_numbers THEN NormalizeNumericText(s1) ELSE s1
    IN  IF rd THEN RemoveAllDigits(s2) ELSE s2

\* if remove_urls: result = remove_all_urls(result)
UrlStage(s, opts) == IF opts.remove_urls THEN RemoveAllUrls(s) ELSE s

\* if use_dictionary_filter: result = apply_dictionary_filter(result,
\* custom_dictionary_path, remove_digits), ws being the lexicon it loads
FilterStage(s, opts, rd, ws) ==
    IF opts.use_dictionary_filter THEN ApplyDictionaryFilter(s, ws, rd) ELSE s

\* if add_sentence_pauses: result = ensure_sentence_pauses(result)
PauseStage(s, opts) ==
    IF opts.add_sentence_pauses THEN EnsureSentencePauses(s) ELSE s

MaxPrepSegs == 2

PrepVocabulary ==
    { <<"D", "r", ".">>, <<"1", "s", "t">>, <<" ">>, <<"x", "7">>, <<".">>,
      <<"2", "/", "3", "/", "2", "0", "2", "0">> }

PrepTexts == { Flatten(segs) : segs \in SegLists(PrepVocabulary, MaxPrepSegs) }

\* no dictionary, and one whose expansion holds a digit
PrepDicts ==
    { <<>>,
      <<[abbrev |-> <<"D", "r", ".">>,
         expansion |-> <<"D", "o", "c", "t", "o", "r", " ", "9">>]>> }

\* an environment without system lists, corpus or custom list
QuietSources ==
    [system |-> [k \in 1..NumSystemDictionaries |-> "absent"],
     corpus |-> "not_installed",
     custom |-> "none"]

InitPrepare ==
    /\ text \in PrepTexts
    /\ oracle = <<>>
    /\ Idle
    /\ sources = QuietSources
    /\ word_set = {}
    /\ remove_digits \in BOOLEAN
    /\ abbreviation_dict \in PrepDicts
    /\ opened = <<>>
    /\ loads = 0
    /\ options \in [normalize_numbers : BOOLEAN, add_sentence_pauses : BOOLEAN,
                    remove_urls : BOOLEAN, use_dictionary_filter : BOOLEAN]

Prepare ==
    /\ op = "none"
    /\ op' = "prepare_for_tts"
    /\ outcome' = "returned"
    /\ \E early \in {EarlyStages(text, abbreviation_dict, options,
                                 remove_digits)} :
       \E s4 \in {UrlStage(early, options)} :
       \E s5 \in {FilterStage(s4, options, remove_digits,
                               LoadedWords(sources))} :
       \E s6 \in {PauseStage(s5, options)} :
            result' = FinalizeTtsText(s6)
    /\ IF options.use_dictionary_filter
       THEN /\ word_set' = LoadedWords(sources)
            /\ opened' = OpenedFrom(1, sources.system)
            /\ loads' = loads + 1
       ELSE UNCHANGED <<word_set, opened, loads>>
    /\ UNCHANGED <<text, sources, remove_digits, abbreviation_dict, options>>
    /\ UNCHANGED citationVars

SpecPrepare == InitPrepare /\ [][Prepare]_vars

------------------------------------------------------------------------------
(* The properties.                                                         *)

\* filter_citations was called with strategy st and nothing raised
Returned(st) ==
    /\ op = "filter"
    /\ fault = "none"
    /\ outcome = "returned"
    /\ strategy = st

\* no two of the citations cs overlap
Disjoint(cs) ==
    \A j, k \in 1..Len(cs) :
        j # k => \/ cs[j].span[2] <= cs[k].span[1]
                 \/ cs[k].span[2] <= cs[j].span[1]

\* the offsets the citations cs cover
SpanOffsets(cs) ==
    UNION {cs[k].span[1]..(cs[k].span[2] - 1) : k \in 1..Len(cs)}

MinStart(cs) ==
    CHOOSE a \in {cs[k].span[1] : k \in 1..Len(cs)} :
        \A k \in 1..Len(cs) : a <= cs[k].span[1]

MaxEnd(cs) ==
    CHOOSE b \in {cs[k].span[2] : k \in 1..Len(cs)} :
        \A k \in 1..Len(cs) : b >= cs[k].span[2]

\* the last n characters of s
Suffix(s, n) == IF n >= Len(s) THEN s ELSE SubSeq(s, Len(s) - n + 1, Len(s))

\* t from offset i on, without the characters at the offsets offs
RECURSIVE Without(_, _, _)
Without(t, i, offs) ==
    IF i >= Len(t) THEN <<>>
    ELSE (IF i \in offs THEN <<>> ELSE <<At(t, i)>>) \o Without(t, i + 1, offs)

\* t from offset i on, with ph in the place of each of the disjoint spans cs
RECURSIVE Substituted(_, _, _, _)
Substituted(t, i, cs, ph) ==
    IF i >= Len(t) THEN <<>>
    ELSE IF \E k \in 1..Len(cs) : cs[k].span[1] = i
         THEN LET k == CHOOSE k \in 1..Len(cs) : cs[k].span[1] = i
              IN  ph \o Substituted(t, cs[k].span[2], cs, ph)
         ELSE <<At(t, i)>> \o Substituted(t, i + 1, cs, ph)

\* sub occurs in s
Occurs(sub, s) ==
    \E i \in 0..(Len(s) - Len(sub)) : Slice(s, i, i + Len(sub)) = sub

\* s.count(sub) from offset i on, for a non-empty sub
RECURSIVE CountFrom(_, _, _)
CountFrom(s, i, sub) ==
    IF i + Len(sub) > Len(s) THEN 0
    ELSE IF Slice(s, i, i + Len(sub)) = sub
         THEN 1 + CountFrom(s, i + Len(sub), sub)
         ELSE CountFrom(s, i + 1, sub)

\* a is obtained from b by deleting characters
RECURSIVE IsSubsequence(_, _)
IsSubsequence(a, b) ==
    IF a = <<>> THEN TRUE
    ELSE IF b = <<>> THEN FALSE
    ELSE IF Head(a) = Head(b) THEN IsSubsequence(Tail(a), Tail(b))
    ELSE IsSubsequence(a, Tail(b))

\* s holds a followed by whitespace and then b
PairOccurs(s, a, b) ==
    \E i \in 0..(Len(s) - 1) :
        /\ At(s, i) = a
        /\ RunEnd(s, i + 1) < Len(s)
        /\ At(s, RunEnd(s, i + 1)) = b

\* s is clean: no run of two whitespace characters, no , \s* , and so on
IsClean(s) ==
    /\ ~\E i \in 0..(Len(s) - 2) : IsSpace(At(s, i)) /\ IsSpace(At(s, i + 1))
    /\ ~PairOccurs(s, ",", ",")
    /\ ~PairOccurs(s, ".", ".")
    /\ ~PairOccurs(s, "(", ")")
    /\ ~PairOccurs(s, "[", "]")

\* C1: a call of filter_citations with a strategy outside the four valid
\* ones is rejected, whatever the text, the empty one included: it raises
\* instead of returning, and does not consult the oracle.
C1_UnknownStrategyRejected ==
    (op = "filter" /\ strategy \notin ValidStrategies)
        => (outcome = "raised" /\ oracleCalls = 0)

\* C2, as stated: after "remove" no citation's substring is at its former
\* offsets in the result, the text before the smallest start and after the
\* largest end is in the result verbatim, and the case names are retained.
C2_RemoveAsStated ==
    (Returned("remove") /\ citations # <<>>)
        => /\ \A k \in 1..Len(citations) :
                Slice(result, citations[k].span[1], citations[k].span[2])
                    # citations[k].text
           /\ Take(result, MinStart(citations)) = Take(text, MinStart(citations))
           /\ Suffix(result, Len(text) - MaxEnd(citations))
                = Drop(text, MaxEnd(citations))
           /\ \A k \in 1..Len(citations) :
                citations[k].case_name # None
                    => Occurs(citations[k].case_name, result)

\* C2, amended: for citations that do not overlap, "remove" returns the
\* cleanup of W, the text without the characters of the citation spans; W
\* holds the text before the smallest start and after the largest end
\* verbatim, and every case name that no citation overlaps.
C2_RemoveDeletesSpans ==
    (Returned("remove") /\ text # <<>> /\ Disjoint(citations))
        => /\ working = Without(text, 0, SpanOffsets(citations))
           /\ result = Cleanup(working)
           /\ citations # <<>> =>
                /\ Take(working, MinStart(citations))
                        = Take(text, MinStart(citations))
                /\ Suffix(working, Len(text) - MaxEnd(citations))
                        = Drop(text, MaxEnd(citations))
           /\ \A k \in 1..Len(citations) :
                LET cn == citations[k].case_name_span
                IN  (cn # None /\ (cn[1]..(cn[2] - 1)) \cap SpanOffsets(citations) = {})
                        => Occurs(citations[k].case_name, working)

\* two citations reported in the order of the text, after some text, are
\* removed
C2_Witness ==
    /\ Returned("remove")
    /\ Len(citations) = 2
    /\ 0 < citations[1].span[1]
    /\ citations[1].span[1] < citations[2].span[1]
    /\ Len(working) = Len(text) - Cardinality(SpanOffsets(citations))
    /\ result = working

\* C3, as stated: after "replace" the placeholder occurs in the result once
\* per citation, and no citation's substring occurs in it.
C3_ReplaceAsStated ==
    Returned("replace")
        => /\ CountFrom(result, 0, placeholder) = Len(citations)
           /\ \A k \in 1..Len(citations) : ~Occurs(citations[k].text, result)

\* C3, amended: for citations that do not overlap, "replace" returns the
\* cleanup of W, the text with the placeholder in the place of each citation
\* span, so that W holds the placeholder at least once per citation; the
\* result holds the default placeholder exactly once per citation when the
\* text has no "[".
C3_ReplaceSubstitutesSpans ==
    (Returned("replace") /\ text # <<>> /\ Disjoint(citations))
        => /\ working = Substituted(text, 0, citations, placeholder)
           /\ result = Cleanup(working)
           /\ CountFrom(working, 0, placeholder) >= Len(citations)
           /\ (placeholder = DefaultPlaceholder /\ ~Occurs(<<"[">>, text))
                => CountFrom(result, 0, placeholder) = Len(citations)

\* two citations are replaced by the default placeholder
C3_Witness ==
    /\ Returned("replace")
    /\ placeholder = DefaultPlaceholder
    /\ Len(citations) = 2
    /\ CountFrom(result, 0, placeholder) = 2
    /\ Len(working) = Len(text) - Cardinality(SpanOffsets(citations))
                        + 2 * Len(placeholder)

\* C4: the cleanup pass is idempotent: the cleanup of what filter_citations
\* returned is what it returned.
C4_CleanupIdempotent ==
    (op = "filter" /\ outcome = "returned" /\ fault = "none")
        => Cleanup(result) = result

\* C5: with no citation detected, every valid strategy returns the cleanup
\* of the text, which is the text itself when the text is clean.
C5_NoCitationsIsCleanup ==
    (op = "filter" /\ strategy \in ValidStrategies /\ fault = "none"
        /\ IdentifyCitations(text, oracle, NoFault) = <<>>)
        => /\ outcome = "returned"
           /\ result = Cleanup(text)
           /\ IsClean(text) => result = text

\* a clean text with whitespace and punctuation is returned as it is
C5_Witness ==
    /\ op = "filter"
    /\ strategy = "names_only"
    /\ Len(text) = MaxCleanLen
    /\ IsClean(text)
    /\ \E i \in 0..(Len(text) - 1) : IsSpace(At(text, i))
    /\ Occurs(<<",">>, text)
    /\ result = text

\* what "remove" returns for the text and the citations of this call
RemoveResult ==
    Cleanup(Rewritten(text, citations, "remove", DefaultPlaceholder))

\* every case name lies after the end of the citations that start before
\* its own citation
NamesAfterCitations(cs) ==
    \A j, k \in 1..Len(cs) :
        (cs[k].case_name_span # None /\ cs[j].span[1] < cs[k].span[1])
            => cs[j].span[2] <= cs[k].case_name_span[1]

SomeName(cs) == \E k \in 1..Len(cs) : cs[k].case_name_span # None

\* C6, as stated: what "remove_with_names" returns is a subsequence of what
\* "remove" returns for the same text, and is shorter when a citation has a
\* case name.
C6_NamesRemovedAsStated ==
    Returned("remove_with_names")
        => /\ IsSubsequence(result, RemoveResult)
           /\ SomeName(citations) => Len(result) < Len(RemoveResult)

\* the offsets the case names of the citations cs cover
NameOffsets(cs) ==
    UNION {cs[k].case_name_span[1]..(cs[k].case_name_span[2] - 1) :
            k \in {j \in 1..Len(cs) : cs[j].case_name_span # None}}

\* the string "remove" hands to the cleanup pass for this call's citations
RemoveWorking == Rewritten(text, citations, "remove", DefaultPlaceholder)

\* C6, amended: for citations that do not overlap and whose case names lie
\* after the end of the preceding citation, the string "remove_with_names"
\* hands to the cleanup pass is the text without the citations and the case
\* names: a subsequence of the string "remove" hands to it, shorter when a
\* citation has a case name; the result is the cleanup of that string.
C6_NamesRemovedToo ==
    (Returned("remove_with_names") /\ text # <<>> /\ Disjoint(citations)
        /\ NamesAfterCitations(citations))
        => /\ working = Without(text, 0, SpanOffsets(citations)
                                            \cup NameOffsets(citations))
           /\ IsSubsequence(working, RemoveWorking)
           /\ SomeName(citations) => Len(working) < Len(RemoveWorking)
           /\ result = Cleanup(working)

\* the same of the returned texts
C6_ResultsUnderPrecondition ==
    (Returned("remove_with_names") /\ Disjoint(citations)
        /\ NamesAfterCitations(citations))
        => /\ IsSubsequence(result, RemoveResult)
           /\ SomeName(citations) => Len(result) < Len(RemoveResult)

\* two citations, the second after a case name, and both the citations and
\* the case name are gone
C6_Witness ==
    /\ Returned("remove_with_names")
    /\ Len(citations) = 2
    /\ Disjoint(citations)
    /\ NamesAfterCitations(citations)
    /\ \E k \in 1..2 : /\ citations[k].case_name_span # None
                       /\ citations[k].case_name_span[1] > 0
    /\ Len(working) < Len(RemoveWorking)

\* C7, as stated: whatever raises inside filter_citations once the strategy
\* is validated, the call returns the text it was given.
C7_FaultReturnsText ==
    (op = "filter" /\ fault # "none")
        => (outcome = "returned" /\ result = text)

\* C7, amended: an exception raised in filter_citations' own try block makes
\* it return the text it was given, never the working string; an exception
\* raised inside identify_citations is absorbed there, and filter_citations
\* returns the cleanup of the text.
C7_FaultReturnsTextOrCleanup ==
    /\ (op = "filter" /\ fault = "rewrite")
            => (outcome = "returned" /\ result = text)
    /\ (op = "filter" /\ fault = "oracle")
            => (outcome = "returned" /\ result = Cleanup(text))

\* the exception comes when the working string is already edited
C7_Witness ==
    /\ op = "filter"
    /\ fault = "rewrite"
    /\ working # text
    /\ result = text

\* C8: identify_citations never raises; a fault of the oracle or of the
\* conversion makes it return the empty list, whatever was converted; the
\* empty text gives the empty list without a call of the oracle.
C8_IdentifyNeverPartial ==
    op = "identify"
        => /\ outcome = "returned"
           /\ fault = "oracle" => citations = <<>>
           /\ text = <<>> => (citations = <<>> /\ oracleCalls = 0)

\* the fault comes after an entry was built
C8_Witness ==
    /\ op = "identify"
    /\ fault = "oracle"
    /\ converted # <<>>
    /\ citations = <<>>

\* C9: a case name begins with a capitalized word, the lower-case words
\* before the first party are not part of it; in the sentence of the test
\* suite the case name is "Brown v. Board of Education".
C9_CaseNameCapitalized ==
    (op = "identify" /\ fault = "none")
        => \A k \in 1..Len(citations) :
                citations[k].case_name # None
                    => /\ Head(citations[k].case_name) \in Upper
                       /\ text = Flatten(BrownParts)
                            => citations[k].case_name
                                = SubSeq(BrownParts[1], 33, 59)

\* C10: a case-name span lies before its citation, is not empty, and only
\* an optional comma followed by whitespace separates it from the citation.
C10_CaseNameBeforeCitation ==
    op = "identify"
        => \A k \in 1..Len(citations) :
             LET cn == citations[k].case_name_span
                 start == citations[k].span[1]
             IN  cn # None
                    => /\ Len(cn) = 2
                       /\ 0 <= cn[1] /\ cn[1] < cn[2] /\ cn[2] <= start
                       /\ \A i \in cn[2]..(start - 1) :
                            \/ IsSpace(At(text, i))
                            \/ i = cn[2] /\ At(text, i) = ","
                       /\ citations[k].case_name = Slice(text, cn[1], cn[2])

\* a case name, a comma, and the citation
C10_Witness ==
    /\ op = "identify"
    /\ \E k \in 1..Len(citations) :
            /\ citations[k].case_name_span # None
            /\ citations[k].case_name_span[2] < citations[k].span[1]
            /\ citations[k].case_name = <<"A", " ", "v", " ", "B">>

\* the records of recs whose offsets are both present
RECURSIVE WithOffsets(_)
WithOffsets(recs) ==
    IF recs = <<>> THEN <<>>
    ELSE (IF SpanMissing(Head(recs).span) THEN <<>> ELSE <<Head(recs)>>)
         \o WithOffsets(Tail(recs))

\* C11: every entry identify_citations returns has both offsets, with
\* 0 <= start < end <= len(text); the oracle's records with an absent offset
\* are discarded: the entries are those of the other records, in order.
C11_EntriesHaveOffsets ==
    (op = "identify" /\ fault = "none" /\ text # <<>>)
        => /\ Len(citations) = Len(WithOffsets(oracle))
           /\ \A k \in 1..Len(citations) :
                LET span == citations[k].span
                IN  /\ ~SpanMissing(span)
                    /\ span = WithOffsets(oracle)[k].span
                    /\ 0 <= span[1] /\ span[1] < span[2]
                    /\ span[2] <= Len(text)
                    /\ citations[k].text = Slice(text, span[1], span[2])

\* a record with one offset left out, then a record with both
C11_Witness ==
    /\ op = "identify"
    /\ Len(oracle) = 2
    /\ oracle[1].span # None
    /\ SpanMissing(oracle[1].span)
    /\ Len(citations) = 1
    /\ citations[1].span = oracle[2].span

\* C12: whatever the state of the system word lists, of the corpus and of
\* the custom dictionary, _load_dictionary returns, and what it returns
\* holds the three built-in lists.
C12_LoadNeverFails ==
    op = "load"
        => /\ outcome = "returned"
           /\ (BasicEnglish \cup BlacksLegal \cup Contractions) \subseteq word_set

\* the same when `import nltk` raises nothing but ImportError
C12_LoadWithoutImportFault ==
    (op = "load" /\ sources.corpus # "import_raises")
        => /\ outcome = "returned"
           /\ (BasicEnglish \cup BlacksLegal \cup Contractions) \subseteq word_set

------------------------------------------------------------------------------
(* remove_all_digits *)

\* the text is one ordinal: digits and then st, nd, rd or th
IsOrdinal(s) ==
    /\ Len(s) >= 3
    /\ \A k \in 1..(Len(s) - 2) : IsDigit(s[k])
    /\ SubSeq(s, Len(s) - 1, Len(s)) \in OrdinalSuffixes

\* C13: the result of remove_all_digits holds no digit 0-9, whatever idioms
\* (ordinal, section, date, year, dollar amount, percentage) the text holds.
C13_NoDigitLeft ==
    op = "remove_all_digits" => ~HasDigit(result)

\* a year that is no word of its own: the last step has digits to delete
C13_Witness ==
    /\ op = "remove_all_digits"
    /\ text = <<"x", "2", "0", "2", "0", "s", "t">>
    /\ HasDigit(ApplyPatterns(Ordinals(text), 2))
    /\ result = <<"x", "s", "t">>

\* C14, as stated: remove_all_digits('1st') = 'number1', the digit retained.
C14_OrdinalKeepsDigits ==
    (op = "remove_all_digits" /\ text = <<"1", "s", "t">>)
        => result = <<"n", "u", "m", "b", "e", "r", "1">>

\* C14, amended: the ordinal step rewrites '<digits><st|nd|rd|th>' to
\* 'number<digits>', and the last step deletes these digits with all others:
\* the result for a text that is one ordinal is 'number'.
C14_OrdinalLosesDigits ==
    (op = "remove_all_digits" /\ IsOrdinal(text))
        => /\ Ordinals(text) =
                <<"n", "u", "m", "b", "e", "r">> \o SubSeq(text, 1, Len(text) - 2)
           /\ result = <<"n", "u", "m", "b", "e", "r">>

C14_Witness ==
    /\ op = "remove_all_digits"
    /\ text = <<"1", "s", "t">>
    /\ result = <<"n", "u", "m", "b", "e", "r">>

------------------------------------------------------------------------------
(* finalize_tts_text *)

InNormalForm(s) ==
    /\ s = <<>> \/ (~IsSpace(s[1]) /\ ~IsSpace(s[Len(s)]))
    /\ \A k \in 1..(Len(s) - 1) :
           /\ ~(IsSpace(s[k]) /\ IsSpace(s[k + 1]))
           /\ ~(s[k] \in Terminators /\ s[k + 1] \in Terminators)

\* C20: the result of finalize_tts_text has no whitespace at either end, no
\* two whitespace characters in a row and no two characters of . ! ? in a row.
C20_FinalizedIsNormal ==
    op = "finalize_tts_text" => InNormalForm(result)

\* leading whitespace stripped, and a run of terminators reduced to its last
C20_Witness ==
    /\ op = "finalize_tts_text"
    /\ text = <<"\n", "a", "!", "?">>
    /\ result = <<"a", "?">>

------------------------------------------------------------------------------
(* expand_abbreviations *)

\* the key stands in s as a word of its own: after the start or a space, and
\* before a space or the end
StandsAlone(s, abbrev) ==
    \E i \in 0..(Len(s) - 1) :
        /\ HasLit(s, i, abbrev)
        /\ i = 0 \/ IsSpace(At(s, i - 1))
        /\ i + Len(abbrev) = Len(s) \/ IsSpace(At(s, i + Len(abbrev)))

Keys(dict) == { dict[k].abbrev : k \in 1..Len(dict) }

\* C19: no key of the dictionary that stood as a separate word is left in the
\* result of expand_abbreviations, a key that ends in a period included.
C19_SeparateKeysExpanded ==
    op = "expand_abbreviations"
        => \A abbrev \in Keys(abbreviation_dict) : ~StandsAlone(result, abbrev)

\* what the code does establish: a key whose last character is a word
\* character is expanded wherever it stands alone, and keys go longest first
C19_WordKeysExpanded ==
    op = "expand_abbreviations"
        => /\ \A abbrev \in Keys(abbreviation_dict) :
                  IsWordChar(abbrev[Len(abbrev)]) => ~StandsAlone(result, abbrev)
           /\ \A k \in 1..(Len(abbreviation_dict) - 1) :
                  Len(SortedAbbrevs(abbreviation_dict)[k].abbrev)
                      >= Len(SortedAbbrevs(abbreviation_dict)[k + 1].abbrev)

\* 'Dr. Lee' with the key 'Dr.': the text comes back as it went in
C19_PeriodKeyKept ==
    /\ op = "expand_abbreviations"
    /\ text = <<"D", "r", ".", " ", "L", "e", "e">>
    /\ \E k \in 1..Len(abbreviation_dict) :
           abbreviation_dict[k].abbrev = <<"D", "r", ".">>
    /\ result = text

------------------------------------------------------------------------------
(* _break_concatenated_words *)

NoSpaces(s) == SelectSeq(s, LAMBDA c : c # " ")

\* the positions of the letters of s, in order
LetterPositions(s) == SelectSeq([k \in 1..Len(s) |-> k], LAMBDA k : IsLetter(s[k]))

\* s[i..j] is a maximal run of letters of s
IsMaximalRun(s, i, j) ==
    /\ i <= j
    /\ \A k \in i..j : IsLetter(s[k])
    /\ i = 1 \/ ~IsLetter(s[i - 1])
    /\ j = Len(s) \/ ~IsLetter(s[j + 1])

\* the letters that stand at positions i..j of s stand side by side in r, r
\* having the letters of s in the same order
Unbroken(s, r, i, j) ==
    \E a \in 1..Len(LetterPositions(s)) :
        /\ LetterPositions(s)[a] = i
        /\ LetterPositions(r)[a + (j - i)] - LetterPositions(r)[a] = j - i

\* C15: _break_concatenated_words only inserts spaces: the result without
\* its spaces is the text without its spaces.
C15_OnlySpacesInserted ==
    op = "_break_concatenated_words" => NoSpaces(result) = NoSpaces(text)

\* a run broken at its capital and before its name ending
C15_Witness ==
    /\ op = "_break_concatenated_words"
    /\ text = <<"B","i","a","n","c","o","B","r","a","n","d","i","s","o","n">>
    /\ result = <<"B","i","a","n","c","o"," ","B","r","a","n","d","i"," ","s","o","n">>

\* C16: a maximal run of letters that is in the lexicon stands unbroken in
\* the result, whatever other runs the text holds.
C16_LexiconRunsUntouched ==
    op = "_break_concatenated_words"
        => \A i, j \in 1..Len(text) :
               (IsMaximalRun(text, i, j) /\ LowerCase(SubSeq(text, i, j)) \in word_set)
                   => Unbroken(text, result, i, j)

\* a run of the lexicon is left alone when no other long run of the text is
\* a part of it
C16_LexiconRunKept ==
    /\ op = "_break_concatenated_words"
    /\ text = <<"B","i","a","n","c","o","B","r","a","n","d","i">>
    /\ LowerCase(text) \in word_set
    /\ result = text

------------------------------------------------------------------------------
(* apply_dictionary_filter: the retention rules *)

\* rules a-i as one condition
KeptByRules(token, ws, rd) ==
    \/ IsPunctuation(token)
    \/ /\ ~(rd /\ HasDigit(token))
       /\ Len(token) <= MaxTokenLen
       /\ \/ InLexicon(token, ws)
          \/ IsContraction(token, ws)
          \/ PartsInLexicon(token, ws)
          \/ IsSingleLetter(token)
          \/ IsAllowlisted(token)

\* C18: a token is kept exactly when it is a punctuation mark, or it is not
\* (remove_digits and holding a digit), is at most 20 long and meets one of
\* the lexicon, contraction, hyphen, single-letter and allowlist rules; a
\* token longer than 20 is dropped even when it is in the lexicon.
C18_RetentionRules ==
    op = "retain"
        => /\ (result = text) <=> KeptByRules(text, word_set, remove_digits)
           /\ (Len(text) > MaxTokenLen) => result = <<>>

\* an entry of the lexicon with a digit is dropped when digits are removed
C18_DigitWitness ==
    /\ op = "retain"
    /\ text = <<"1", "s", "t">>
    /\ text \in word_set
    /\ remove_digits
    /\ result = <<>>

\* the 25-letter entry of the lexicon is dropped
C18_Witness ==
    /\ op = "retain"
    /\ text = LongEntry
    /\ text \in word_set
    /\ result = <<>>

------------------------------------------------------------------------------
(* apply_dictionary_filter *)

\* C17: apply_dictionary_filter is idempotent on its outputs: filtering a
\* result again, with the same lexicon and remove_digits, gives the result.
C17_FilterIdempotent ==
    (op = "apply_dictionary_filter" /\ outcome = "returned")
        => ApplyDictionaryFilter(result, word_set, remove_digits) = result

\* the second pass breaks a piece the first pass kept
C17_SecondPassChanges ==
    /\ op = "apply_dictionary_filter"
    /\ text = <<"C","o","m","m","o","n","w","e","a","l","t","h">>
                \o <<"M","a","s","s","a","c","h","u","s","e","t","t","'","s">>
    /\ result = <<"C","o","m","m","o","n","w","e","a","l","t","h"," ">>
                  \o <<"M","a","s","s","a","c","h","u","s","e","t","t","'","s">>
    /\ ApplyDictionaryFilter(result, word_set, remove_digits)
           = <<"C","o","m","m","o","n","w","e","a","l","t","h"," ","M","a","s","s">>

\* no token of s is kept by the contraction rule alone
NoBareContraction(s, ws) ==
    \A k \in 1..Len(Tokenize(s, 0)) :
        IsContraction(Tokenize(s, 0)[k], ws) => InLexicon(Tokenize(s, 0)[k], ws)

\* what holds of the code: a result without a token that only the
\* contraction rule keeps is filtered to itself
C17_IdempotentWithoutContractions ==
    (op = "apply_dictionary_filter" /\ outcome = "returned"
        /\ NoBareContraction(result, word_set))
        => ApplyDictionaryFilter(result, word_set, remove_digits) = result

\* a result that the second pass leaves alone
C17_StableResult ==
    /\ op = "apply_dictionary_filter"
    /\ text = <<"1","s","t","&","C","o","m","m","o","n","w","e","a","l","t","h">>
    /\ ~remove_digits
    /\ result = <<"1","s","t"," ","C","o","m","m","o","n","w","e","a","l","t","h">>
    /\ ApplyDictionaryFilter(result, word_set, remove_digits) = result

------------------------------------------------------------------------------
(* remove_all_digits: section, paragraph and page *)

ReferenceNames == {"section", "paragraph", "page"}

\* s is the word of pat in some casing, whitespace, and digits to the end
IsReferencePhrase(s, pat) ==
    LET w == 1 + Len(ReferenceWords[pat])
    IN  /\ Len(s) > w + 1
        /\ At(s, 0) \in ReferenceInitials[pat]
        /\ LowerCase(Slice(s, 1, w)) = ReferenceWords[pat]
        /\ RunEnd(s, w) > w
        /\ RunEnd(s, w) < Len(s)
        /\ DigitsEnd(s, RunEnd(s, w)) = Len(s)

NumberPhrase(s, pat) ==
    <<ToLower(At(s, 0))>> \o ReferenceWords[pat]
        \o <<" ", "n", "u", "m", "b", "e", "r">>

\* C27: every casing of section, paragraph or page followed by whitespace and
\* digits is rewritten by remove_all_digits to '<word> number'.
C27_AnyCasingRewritten ==
    op = "remove_all_digits"
        => \A pat \in ReferenceNames :
               IsReferencePhrase(text, pat) => result = NumberPhrase(text, pat)

\* what the code does: the casing of the first letter is free, the rest of
\* the word is lowercase
C27_FirstLetterCasing ==
    op = "remove_all_digits"
        => \A pat \in ReferenceNames :
               (IsReferencePhrase(text, pat) /\ HasLit(text, 1, ReferenceWords[pat]))
                   => result = NumberPhrase(text, pat)

\* 'Section 1' is rewritten
C27_SectionRewritten ==
    /\ op = "remove_all_digits"
    /\ text = <<"S", "e", "c", "t", "i", "o", "n", " ", "1">>
    /\ result = <<"s", "e", "c", "t", "i", "o", "n", " ", "n", "u", "m", "b", "e", "r">>

\* 'SECTION 1' only loses its digit
C27_UppercaseKept ==
    /\ op = "remove_all_digits"
    /\ text = <<"S", "E", "C", "T", "I", "O", "N", " ", "1">>
    /\ result = <<"S", "E", "C", "T", "I", "O", "N", " ">>

------------------------------------------------------------------------------
(* apply_dictionary_filter: the contraction rule *)

EndsWith(s, part) == Len(s) >= Len(part) /\ HasLit(s, Len(s) - Len(part), part)

\* the lowercased token without one suffix at its end, or without its
\* apostrophes, is in the lexicon
StrippedInLexicon(token, ws) ==
    \/ \E part \in ContractionParts \ {<<"'">>} :
           /\ EndsWith(LowerCase(token), part)
           /\ Take(LowerCase(token), Len(token) - Len(part)) \in ws
    \/ SelectSeq(LowerCase(token), LAMBDA c : c # "'") \in ws

\* the token came as far as the contraction rule and was kept by it
KeptAsContraction(token, ws, rd) ==
    /\ ~IsPunctuation(token)
    /\ ~(rd /\ HasDigit(token))
    /\ Len(token) <= MaxTokenLen
    /\ ~InLexicon(token, ws)
    /\ IsContraction(token, ws)

\* C28: the contraction rule keeps a token only if the lowercased token
\* without one of 's, 't, 've, 're, 'll, 'd at its end, or without its
\* apostrophe, is in the lexicon; nothing in the middle of it is stripped.
C28_SuffixStrippedAtEnd ==
    (op = "retain" /\ KeptAsContraction(text, word_set, remove_digits))
        => StrippedInLexicon(text, word_set)

\* "the't't" is kept: both 't are taken out, and 'the' is in the lexicon
C28_MiddleStripped ==
    /\ op = "retain"
    /\ text = <<"t", "h", "e", "'", "t", "'", "t">>
    /\ KeptAsContraction(text, word_set, remove_digits)
    /\ result = text

\* "Court't" is kept with its one suffix
C28_SuffixStripped ==
    /\ op = "retain"
    /\ text = <<"C", "o", "u", "r", "t", "'", "t">>
    /\ KeptAsContraction(text, word_set, remove_digits)
    /\ StrippedInLexicon(text, word_set)
    /\ result = text

------------------------------------------------------------------------------
(* _break_concatenated_words: the replacement *)

\* the long words of t that the loop rewrites: not in the lexicon, with a break
Qualifying(t, ws) ==
    { w \in { LongWords(t, 0)[k] : k \in 1..Len(LongWords(t, 0)) } :
        LowerCase(w) \notin ws /\ PotentialBreaks(w, ws) # <<>> }

C24_NoDoubleSpace ==
    (op = "_break_concatenated_words" /\ ~HasDoubleSpace(text))
        => ~HasDoubleSpace(result)

\* a run longer than 20 with one capital inside: the break is found by the
\* camelCase scan and by the scan for capitals, and two spaces are inserted
C24_DoubledBreak ==
    /\ op = "_break_concatenated_words"
    /\ text = <<"B","i","a","n","c","o">>
                \o <<"c","o","u","r","t","t","h","e","c","o","u","r","t">>
                \o <<"B","r","a","n","d","i">>
    /\ PotentialBreaks(text, word_set) = <<19, 19>>
    /\ result = <<"B","i","a","n","c","o">>
                  \o <<"c","o","u","r","t","t","h","e","c","o","u","r","t">>
                  \o <<" ", " ">> \o <<"B","r","a","n","d","i">>


\* the word the list at location k holds
SystemWord(k) == <<"s", LocationDigit[k]>>

\* the locations in a list of opened locations
OpenedSet(seq) == { seq[j] : j \in 1..Len(seq) }

\* C25 as stated: _load_dictionary opens at most one system word list, and
\* once a location holds a file, no later location is opened or adds a word.
C25_AtMostOneOpened ==
    (op = "load" /\ outcome = "returned")
        => /\ Len(opened) <= 1
           /\ \A k \in 1..NumSystemDictionaries :
                  sources.system[k] # "absent"
                      => \A m \in (k + 1)..NumSystemDictionaries :
                             /\ m \notin OpenedSet(opened)
                             /\ SystemWord(m) \notin word_set

\* C25, amended: the locations are opened in their fixed order, every
\* existing location is opened until one has been read to its end, every
\* location opened before that one raised while it was opened or read, and
\* no location after the one read to its end is opened or adds a word.
C25_StopsAfterCompleteRead ==
    (op = "load" /\ outcome = "returned")
        => /\ \A j \in 1..(Len(opened) - 1) :
                  /\ opened[j] < opened[j + 1]
                  /\ sources.system[opened[j]] \in {"unreadable", "breaks"}
           /\ \A k \in 1..NumSystemDictionaries :
                  /\ (/\ sources.system[k] # "absent"
                      /\ \A m \in 1..(k - 1) : sources.system[m] # "readable")
                         => k \in OpenedSet(opened)
                  /\ sources.system[k] = "readable"
                         => \A m \in (k + 1)..NumSystemDictionaries :
                                /\ m \notin OpenedSet(opened)
                                /\ SystemWord(m) \notin word_set

\* a load that opened two locations: the first raised in the middle of its
\* read, the second was read to its end, the third was left alone
C25_Witness ==
    /\ op = "load"
    /\ outcome = "returned"
    /\ sources.system[1] = "breaks"
    /\ sources.system[3] = "readable"
    /\ opened = <<1, 2>>
    /\ SystemWord(1) \in word_set
    /\ SystemWord(2) \in word_set
    /\ SystemWord(3) \notin word_set


\* C26 as stated: across the calls of apply_dictionary_filter in one process
\* the lexicon is built once: a call after the first neither calls
\* _load_dictionary nor changes the lexicon.
C26_LexiconBuiltOnce ==
    [][loads >= 1 => (loads' = loads /\ word_set' = word_set)]_vars

\* two calls later the lexicon has been built twice, and the second build
\* read a custom word list that the first did not find
C26_LexiconRebuilt ==
    /\ op = "apply_dictionary_filter"
    /\ loads = 2
    /\ sources.custom = "readable"
    /\ <<"l", "e", "x">> \in word_set
    /\ text = <<"L", "e", "x">>
    /\ result = <<"L", "e", "x">>

\* the lexicon of a call is what _load_dictionary built for that call: the
\* filter and the segmenter leave it as it was built
C26_LexiconNotModified ==
    [][op' = "apply_dictionary_filter" /\ loads' = loads + 1
           => word_set' = LoadedWords(sources)]_vars


\* the chain of case_patterns cut after its third pattern
FirstOfThree(p) ==
    IF AnchoredGroup(p, 1) # None THEN AnchoredGroup(p, 1)
    ELSE IF AnchoredGroup(p, 2) # None THEN AnchoredGroup(p, 2)
    ELSE AnchoredGroup(p, 3)

\* C30: the fourth case-name pattern never wins: on every prefix on which
\* it matches the first pattern matches too, so the case name of every
\* entry is the one patterns 1 to 3 give, or None.
C30_Pattern4NeverWins ==
    (op = "identify" /\ outcome = "returned")
        => \A k \in 1..Len(citations) :
               LET p == Take(text, citations[k].span[1])
               IN  /\ Pattern4Group(p) # None => AnchoredGroup(p, 1) # None
                   /\ citations[k].case_name_span = FirstOfThree(p)

\* pattern 4 matches "in A v B" with the group "A v B"; the entry has the
\* span pattern 1 found, which starts at the lead-in word
C30_Witness ==
    /\ op = "identify"
    /\ text = <<"i", "n", " ", "A", " ", "v", " ", "B", "7">>
    /\ Len(citations) = 1
    /\ Pattern4Group(Take(text, 8)) = <<3, 8>>
    /\ citations[1].case_name_span = <<0, 8>>


\* the orders in which the oracle could have returned the citations cs
Orders(cs) ==
    { [i \in 1..Len(cs) |-> cs[f[i]]] :
        f \in {g \in [1..Len(cs) -> 1..Len(cs)] :
                \A a, b \in 1..Len(cs) : a # b => g[a] # g[b]} }

\* what each strategy is to hand to the cleanup pass: the text without the
\* offsets of the spans it deletes, or with the placeholder in their place
Expected(t, cs, strat, ph) ==
    CASE strat = "remove" -> Without(t, 0, SpanOffsets(cs))
      [] strat = "names_only" -> Without(t, 0, NameOffsets(cs))
      [] strat = "remove_with_names" ->
            Without(t, 0, SpanOffsets(cs) \cup NameOffsets(cs))
      [] strat = "replace" -> Substituted(t, 0, cs, ph)

\* C22: for citations that do not overlap and whose case names lie between
\* the end of the preceding citation and the start of their own, the string
\* filter_citations hands to the cleanup pass is the text edited at the
\* offsets the spans have in the text: remove deletes the citation spans,
\* names_only the case-name spans, remove_with_names both, and replace puts
\* the placeholder in the place of each citation span; the string is the
\* same for every order in which the citations are returned.
C22_EditsAtOriginalOffsets ==
    (op = "filter" /\ fault = "none" /\ outcome = "returned" /\ text # <<>>
        /\ Disjoint(citations) /\ NamesAfterCitations(citations))
        => /\ working = Expected(text, citations, strategy, placeholder)
           /\ result = Cleanup(working)
           /\ \A cs \in Orders(citations) :
                  Rewritten(text, cs, strategy, placeholder) = working

\* names_only with two citations, returned in the opposite order of the
\* text, the second after a case name: the case name is gone and both
\* citations are where they were
C22_Witness ==
    /\ Returned("names_only")
    /\ Len(citations) = 2
    /\ citations[1].span[1] > citations[2].span[1]
    /\ Disjoint(citations)
    /\ NamesAfterCitations(citations)
    /\ citations[1].case_name_span # None
    /\ citations[1].case_name_span[1] >= citations[2].span[2]
    /\ working = Without(text, 0, NameOffsets(citations))
    /\ Len(working) < Len(text)
    /\ \A k \in 1..2 : Occurs(citations[k].text, working)


\* the dates of s from offset i on, from left to right: a date whose month
\* number is in months becomes "<MonthName> <day>, <year>", a date whose
\* month number is 0 becomes what zero gives, any other date stays
RECURSIVE DatesFrom(_, _, _)
DatesFrom(s, i, zero) ==
    IF i >= Len(s) THEN <<>>
    ELSE IF DateAt(s, i) = None THEN <<At(s, i)>> \o DatesFrom(s, i + 1, zero)
    ELSE LET m == DateAt(s, i)
             month == IntOf(Slice(s, m[1], m[2] - 1))
             tail == <<" ">> \o StrOf(IntOf(Slice(s, m[2], m[3] - 1)))
                        \o <<",", " ">> \o Slice(s, m[3], m[4])
         IN  (IF month \in 1..Len(month_names) THEN month_names[month] \o tail
              ELSE IF month = 0 /\ zero # None THEN zero \o tail
              ELSE Slice(s, m[1], m[4]))
                \o DatesFrom(s, m[4], zero)

\* C29 as stated: every M/D/YYYY date whose month number is in 1..12 is
\* rewritten to "<MonthName> <day>, <year>", the day without leading zeros,
\* and every date whose month number is outside 1..12, 0 and 00 included,
\* is left exactly as it was.
C29_InvalidMonthsKept ==
    op = "normalize_numeric_text"
        => result = DatesFrom(NumericSubs(text, 1), 0, None)

\* what the code does: a date whose month number is 0 or 00 is rewritten
\* with the last month's name; the months 13 to 99 are left as they were
C29_ZeroMonthIsDecember ==
    op = "normalize_numeric_text"
        => result = DatesFrom(NumericSubs(text, 1), 0,
                              month_names[Len(month_names)])

\* the date 0/05/2020 has become December 5, 2020
C29_ZeroMonthRewritten ==
    /\ op = "normalize_numeric_text"
    /\ text = <<"0", "/", "0", "5", "/", "2", "0", "2", "0">>
    /\ result = month_names[12] \o <<" ", "5", ",", " ", "2", "0", "2", "0">>

\* two dates in one text, the second with the month 13: the first is
\* rewritten and the second is where it was, after the longer first one
C29_TwoDates ==
    /\ op = "normalize_numeric_text"
    /\ text = <<"1", "2", "/", "1", "/", "2", "0", "2", "0", " ",
                "1", "3", "/", "1", "/", "2", "0", "2", "0">>
    /\ result = month_names[12] \o <<" ", "1", ",", " ", "2", "0", "2", "0",
                  " ", "1", "3", "/", "1", "/", "2", "0", "2", "0">>


\* C21: when remove_digits is set, the text prepare_for_tts returns holds
\* no digit, whatever the text, the abbreviation dictionary and the other
\* flags: the digits are removed after the abbreviations are expanded and
\* the numbers normalized, and no later stage brings a digit in.
C21_NoDigitReturned ==
    (op = "prepare_for_tts" /\ outcome = "returned" /\ remove_digits)
        => /\ ~HasDigit(result)
           /\ ~HasDigit(EarlyStages(text, abbreviation_dict, options, TRUE))

\* an abbreviation whose expansion holds a digit, and a date: with every
\* stage on, the result has words and no digit
C21_Witness ==
    /\ op = "prepare_for_tts"
    /\ remove_digits
    /\ abbreviation_dict # <<>>
    /\ options.normalize_numbers
    /\ options.add_sentence_pauses
    /\ ~options.use_dictionary_filter
    /\ text = <<"D", "r", ".", "2", "/", "3", "/", "2", "0", "2", "0">>
    /\ HasDigit(ExpandAbbreviations(text, abbreviation_dict))
    /\ result # <<>>
    /\ ~HasDigit(result)

====
